---- MODULE Spec2Model ----
(***************************************************************************)
(* State-machine model of cc-utils' pipeline replication                   *)
(* (concourse/replicator.py), of the webhook dispatcher's handling of      *)
(* pull-request and push events (whd/pull_request.py, whd/dispatcher.py),  *)
(* of the component-descriptor lookups (cnudie/retrieve.py) and of the     *)
(* replication of OCI artifacts (oci/__init__.py).                         *)
(*                                                                         *)
(* SpecRepl : one run of PipelineReplicator.replicate(): the worker pool   *)
(*            (preprocess, render, duplicate check, deploy), the main      *)
(*            thread collecting the results, and                           *)
(*            ReplicationResultProcessor.process_results.                  *)
(* SpecPR   : one call of ensure_pr_resource_updates, one action per       *)
(*            (recursive) invocation of the function.                      *)
(* SpecEvt  : one call of process_pr_event: the validation of the pipeline *)
(*            definitions, then one action per concourse client, with      *)
(*            set_pr_labels and _should_label.                             *)
(* SpecAbort: one call of abort_running_jobs_if_configured, one action per *)
(*            affected pipeline and per job.                               *)
(* SpecWhd  : one POST to the webhook (whd/webhook.py) and the handler     *)
(*            thread it starts; the push handler runs the actions of       *)
(*            SpecAbort between its update and its resource checks.        *)
(* SpecComp : one call of the composite component-descriptor lookup        *)
(*            (cnudie/retrieve.py), one action per layer.                  *)
(* SpecLayer: one call of a single lookup layer with a mapping config.     *)
(* SpecFs   : write-backs of the filesystem cache and a concurrent lookup. *)
(* SpecOci  : calls of oci.replicate_artifact (oci/__init__.py) for one    *)
(*            artifact and target, one action per call.                    *)
(* SpecIter : cnudie.iter.iter and cnudie.retrieve.components walking a    *)
(*            graph of component references, one action per reference.     *)
(* SpecPass : successive process_results calls on one                      *)
(*            ReplicationResultProcessor.                                  *)
(* SpecCache: repeated composite lookups over the in-memory cache.         *)
(***************************************************************************)
EXTENDS Integers, Sequences, FiniteSets, TLC

(***************************************************************************)
(* Bounds of the model                                                     *)
(***************************************************************************)
\* number of definition descriptors the enumerators yield in one run
NumDesc == 2

\* invocations of ensure_pr_resource_updates explored (the code has no bound)
MaxRounds == 12

(***************************************************************************)
(* Program constants                                                       *)
(***************************************************************************)
\* DeployStatus (IntEnum, used as a bit field)
SUCCEEDED == 1
FAILED == 2
SKIPPED == 4
CREATED == 8

\* ThreadPoolExecutor(max_workers=16)
max_workers == 16

Descs == 1..NumDesc

\* pipeline names descriptors can carry, and names a backend can hold
Names == {"foo", "bar"}
BackendNames == Names \cup {"old"}

\* what concourse_api.pipelines() can return in a run: an empty backend, a
\* backend holding a pipeline no descriptor names, a backend holding all
BackendChoices == {{}, {"old"}, BackendNames}

\* concourse targets (concourse_cfg, team_name)
Targets == {"t1", "t2"}

\* class of the exception an enumerator attached to a descriptor
\* ("None": no enumeration error)
ExcClasses == {"None", "OSError", "ValueError"}

\* the classes of the exceptions raised inside Renderer._render before the
\* template is rendered: one of the ignore_exceptions classes, or the
\* RuntimeError of a definition without main repository
RaisedClasses == {"OSError", "RuntimeError"}

VARIABLES
    \* ---- replication run -------------------------------------------------
    unpause_pipelines,       \* ConcourseDeployer.unpause_pipelines
    unpause_new_pipelines,   \* ConcourseDeployer / ReplicationResultProcessor
    expose_pipelines,        \* ConcourseDeployer.expose_pipelines
    cleanup_policy,          \* job_mapping.cleanup_policy()
    remove_pipelines,        \* ReplicationResultProcessor.remove_pipelines
    remove_pipelines_filter, \* [given |-> BOOLEAN, keep |-> set of names]
    desc,                    \* d -> [name, target, exception]; name is the
                             \* pipeline_name the preprocessed descriptor has
    pc,                      \* d -> position of the worker processing d
    render_status,           \* d -> "none" | "SUCCEEDED" | "FAILED"
    render_exception,        \* d -> class of RenderResult.exception
    template_lock,           \* makoutil.template_lock: 0 or the holder
    pipeline_names_lock,     \* PipelineReplicator._pipeline_names_lock
    pipeline_names,          \* PipelineReplicator._pipeline_names
    result,                  \* d -> [status, err] the worker's DeployResult
    deployed,                \* descriptors handed to definition_deployer.deploy
    set_calls,               \* d -> number of api.set_pipeline calls
    set_log,                 \* d -> how each api.set_pipeline call ended
    unpaused_dep,            \* d: deployer called api.unpause_pipeline
    exposed,                 \* d: deployer called api.expose_pipeline
    main_pc,                 \* position of the thread running replicate()
    collected,               \* number of results replicate() has collected
    todo_targets,            \* targets process_results still has to visit
    existing,                \* t -> what concourse_api.pipelines() returned
    used_names,              \* t -> deployed_pipeline_names computed for t
    deleted,                 \* <<t, name>>: concourse_api.delete_pipeline calls
    unpaused_proc,           \* d: result processor called unpause_pipeline
    checked,                 \* d: initial resource checks were triggered
    reordered,               \* targets for which order_pipelines was called
    notified,                \* d: _notify_broken_definition_owners was called
    all_notifications_succeeded, \* local variable of process_results
    ret,                     \* return value of replicate()
    \* ---- ensure_pr_resource_updates -------------------------------------
    pr_pc,                   \* "idle" | "call" | "returned"
    retries0,                \* the retries argument of the outermost call
    retries,                 \* the retries argument of the current call
    label_names,             \* pr_event.label_names()
    outdated,                \* resources argument of the current call
    checks,                  \* rounds in which resources were checked
    triggers,                \* rounds in which a resource check was triggered
    gave_up,                 \* the 'giving up' branch was taken
    round_resources,         \* resources argument of the call that ran last
    failing_to_check,        \* its resources with failing_to_check()
    pr_listed,               \* its resources whose versions list the PR
    trigger_resources,       \* resources it handed to trigger_resource_check
    \* ---- process_pr_event -----------------------------------------------
    ev_pc,                   \* "idle" | "begin" | "batches" | "returned" | "raised"
    action,                  \* pr_event.action()
    event_label,             \* pr_event.label()
    sender_login,            \* pr_event.sender()['login']
    trusted_teams,           \* job_mapping.trusted_teams()
    member_of,               \* team names for which is_team_member is true
    org_member,              \* is_org_member(owner, sender_login)
    has_job_mapping,         \* a job mapping exists for the repository
    has_github_helper,       \* github_api_for_pr_event returned a helper
    modified,                \* pr_modified_pipeline_definitions(...)
    validation_ok,           \* validate_repository_pipelines does not raise
    concourse_clients,       \* per client: what matching_resources yields
    batch,                   \* index of the next client of the loop
    labels_added,            \* <<batch, label>>: add_labels_to_pull_request
    labels_removed,          \* labels of remove_label_from_pull_request
    comments,                \* comments posted by add_comment_to_pr
    checks_triggered,        \* batches with whd.util.trigger_resource_check
    updates_entered,         \* batches with ensure_pr_resource_updates
    untriggered_handled,     \* batches with handle_untriggered_jobs
    \* ---- abort_running_jobs_if_configured -------------------------------
    ab_pc,                   \* "idle" | "pipelines" | "jobs" | "returned" | "raised"
    is_forced_push,          \* push_event.is_forced_push()
    pipelines,               \* what determine_affected_pipelines yields
    job_builds,              \* what client.job_builds returns for a job
    pipeline_idx,            \* number of pipelines the loop has taken
    job_idx,                 \* number of jobs taken of the current pipeline
    handled,                 \* <<pipeline, job>>: the job loop body was entered
    aborted,                 \* <<pipeline, job, build>>: client.abort_build
    \* ---- GithubWebhook.on_post and the handler thread -------------------
    http_pc,                 \* "recv" | "returned": position of on_post
    http_exc,                \* an exception reached the HTTP layer
    event,                   \* the X-GitHub-Event header
    pr_action,               \* PullRequestEvent.action()
    ref_type,                \* CreateEvent.ref_type()
    modified_paths,          \* push_event.modified_paths()
    skip_ci,                 \* the commit message holds [skip ci] or [ci skip]
    git_resources,           \* per client: the git resources of its pipelines
    resp_text,               \* resp.text
    thread_target,           \* target of the thread started, or "none"
    th_pc,                   \* position of the handler thread
    update_run,              \* how the calls of _do_update, and the reload
                             \* between them, ended
    client_idx,              \* clients the resource-check loop has taken
    call_log,                \* calls made by process_push_event, in order
    checked_resources,       \* <<client, resource name>> handed to
                             \* whd.util.trigger_resource_check
    label_ops,               \* a handler added or removed a label
    \* ---- composite_component_descriptor_lookup -------------------------
    lk_pc,                   \* "idle" | "loop" | "returned" | "raised"
    lookups,                 \* per layer: what its lookup does in this call
    ctx_repo,                \* the ctx_repo argument
    absent_ok,               \* the absent_ok argument
    has_repository_ctx,      \* the descriptor the layers yield has a
                             \* current_repository_ctx()
    layer_idx,               \* number of layers consulted
    writebacks,              \* the local list: layers that returned a WriteBack
    wb_calls,                \* layers whose WriteBack was invoked, in order
    lk_ret,                  \* return value of the composite lookup
    lk_exc,                  \* class of the exception leaving the lookup
    \* ---- lookup of one layer with a mapping config ---------------------
    ly_pc,                   \* "idle" | "call" | "returned" | "raised"
    layer,                   \* which of the four lookups is called
    ocm_repositories,        \* mapping_config.iter_ocm_repositories(name)
    stored,                  \* repositories under which the layer's backend
                             \* holds the descriptor
    layer_absent_ok,         \* default_absent_ok of the layer
    tried,                   \* candidates the lookup has asked the backend for
    ly_res,                  \* [kind, repo]: what the lookup returned
    \* ---- filesystem cache: write-backs and a lookup of one path --------
    same_filesystem,         \* the cache dir is on the file system of the
                             \* default temp dir
    w_pc,                    \* writer -> position in writeback
    tmp_dir,                 \* writer -> directory of its temp file
    tmp_file,                \* writer -> state of its temp file
    cache_file,              \* state of the file at descriptor_path
    rd_pc,                   \* position of the thread in lookup
    observed,                \* what the lookup read from descriptor_path
    \* ---- oci.replicate_artifact ----------------------------------------
    oci_pc,                  \* "idle" | "call" | "returned" | "raised"
    oci_mode,                \* the mode argument (ReplicationMode)
    src_kind,                \* the manifest client.manifest_raw returns:
                             \* schema v1, v2 single image, or image index
    cfg_in_source,           \* the source holds the config blobs
    client_passed,           \* oci_client was passed (not credentials_lookup)
    platform_filter,         \* "None" or a filter keeping linux/amd64 only
    platforms,               \* the platform of each sub-manifest of an index
    holds_annotations,       \* sub-images whose manifest holds the
                             \* annotations passed already
    annotations,             \* "None", or annotations the top-level manifest
                             \* lacks ("new") or every manifest holds
                             \* already ("present")
    tgt_blobs,               \* blobs the target repository holds
    runs,                    \* calls of replicate_artifact that have ended
    head_calls,              \* blobs of client.head_blob in the current call
    get_calls,               \* blobs of client.blob in the current call
    put_calls,               \* blobs of client.put_blob in the current call
    sub_manifests,           \* sub-images whose manifest was PUT in the call
    top_manifest,            \* the manifest PUT to tgt_image_reference
    manifest_list,           \* the entries of the manifest list PUT
    put_manifests,           \* the single-image manifests PUT in the call
    oci_exc,                 \* class of the exception leaving the call
    \* cnudie.iter.iter and cnudie.retrieve.components
    it_fn,                   \* "iter" | "components"
    references,              \* componentReferences of each component
    prune_unique,            \* the prune_unique argument of iter
    it_pc,                   \* "idle" | "run" | "done" | "raised"
    frames,                  \* the active calls of the nested generator:
                             \* component and number of references done
    seen_component_ids,      \* seen_component_ids of iter,
                             \* _visited_component_versions of components
    yielded,                 \* components the generator has yielded
    lookup_count,            \* lookups of each component, counted up to 2
    \* successive process_results calls on one ReplicationResultProcessor
    processor,               \* the processor: whether it is constructed, the
                             \* remove_pipelines argument, the cleanup policy
                             \* of the job mapping, self.remove_pipelines
    pass_log,                \* per process_results call: failed_count, and
                             \* whether the targets were cleaned up
    \* repeated composite lookups over the in-memory cache
    cache,                   \* keys (component_id, ctx_repo) of the cache
    lookup_ctx_repo,         \* ctx_repo the lookups are called with
    descriptor_ctx_repo,     \* current_repository_ctx() of the descriptors
                             \* the lower layer yields; 0: None
    evicted,                 \* keys the cache has evicted
    lookup_log               \* per lookup: the component, and the layer that
                             \* answered

replVars == <<unpause_pipelines, unpause_new_pipelines, expose_pipelines,
              cleanup_policy, remove_pipelines, remove_pipelines_filter, desc, pc,
              render_status, render_exception, template_lock,
              pipeline_names_lock,
              pipeline_names, result, deployed, set_calls, set_log,
              unpaused_dep,
              exposed, main_pc, collected, todo_targets, existing,
              used_names, deleted, unpaused_proc, checked, reordered,
              notified, all_notifications_succeeded, ret>>

prVars == <<pr_pc, retries0, retries, label_names, outdated, checks, triggers,
            gave_up, round_resources, failing_to_check, pr_listed,
            trigger_resources>>

evtInputs == <<action, event_label, sender_login, trusted_teams, member_of,
               org_member, has_job_mapping, has_github_helper, modified,
               validation_ok, concourse_clients>>

evtVars == <<ev_pc, evtInputs, batch, labels_added, labels_removed, comments,
             checks_triggered, updates_entered, untriggered_handled>>

abortInputs == <<is_forced_push, pipelines, job_builds>>

abortVars == <<ab_pc, abortInputs, pipeline_idx, job_idx, handled, aborted>>

whdInputs == <<event, pr_action, ref_type, modified_paths, skip_ci,
               git_resources>>

httpVars == <<http_pc, http_exc, resp_text>>

whdVars == <<httpVars, whdInputs, thread_target, th_pc, update_run,
             client_idx, call_log, checked_resources, label_ops>>

compInputs == <<lookups, ctx_repo, absent_ok, has_repository_ctx>>

compVars == <<lk_pc, compInputs, layer_idx, writebacks, wb_calls, lk_ret,
              lk_exc>>

layerInputs == <<layer, ocm_repositories, stored, layer_absent_ok>>

layerVars == <<ly_pc, layerInputs, tried, ly_res>>

fsVars == <<same_filesystem, w_pc, tmp_dir, tmp_file, cache_file, rd_pc,
            observed>>

cnudieVars == <<compVars, layerVars, fsVars>>

ociInputs == <<oci_mode, src_kind, cfg_in_source, client_passed,
               platform_filter, platforms, annotations,
               holds_annotations>>

iterInputs == <<it_fn, references, prune_unique>>

iterVars == <<it_pc, iterInputs, frames, seen_component_ids, yielded,
              lookup_count>>

passVars == <<processor, pass_log>>

cacheVars == <<cache, lookup_ctx_repo, descriptor_ctx_repo, evicted,
               lookup_log>>

ociVars == <<oci_pc, ociInputs, tgt_blobs, runs, head_calls, get_calls,
             put_calls, sub_manifests, top_manifest, manifest_list,
             put_manifests, oci_exc>>

vars == <<replVars, prVars, evtVars, abortVars, whdVars, cnudieVars,
          ociVars, iterVars, passVars, cacheVars>>

\* the variables of the other subsystems
nonReplVars == <<prVars, evtVars, abortVars, whdVars, cnudieVars, ociVars, iterVars, passVars, cacheVars>>

nonPRVars == <<replVars, evtVars, abortVars, whdVars, cnudieVars, ociVars, iterVars, passVars, cacheVars>>

nonEvtVars == <<replVars, prVars, abortVars, whdVars, cnudieVars, ociVars, iterVars, passVars, cacheVars>>

nonAbortVars == <<replVars, prVars, evtVars, whdVars, cnudieVars, ociVars, iterVars, passVars, cacheVars>>

\* the variables of the other subsystems, for the three specifications of
\* the component descriptor lookups
nonCompVars == <<replVars, prVars, evtVars, abortVars, whdVars, ociVars, iterVars, passVars, cacheVars, layerVars,
                 fsVars>>

nonLayerVars == <<replVars, prVars, evtVars, abortVars, whdVars, ociVars, iterVars, passVars, cacheVars, compVars,
                  fsVars>>

nonFsVars == <<replVars, prVars, evtVars, abortVars, whdVars, ociVars, iterVars, passVars, cacheVars, compVars,
               layerVars>>

nonOciVars == <<replVars, prVars, evtVars, abortVars, whdVars, cnudieVars, iterVars, passVars, cacheVars>>

nonIterVars == <<replVars, prVars, evtVars, abortVars, whdVars, cnudieVars,
                 ociVars, passVars, cacheVars>>

nonPassVars == <<replVars, prVars, evtVars, abortVars, whdVars, cnudieVars,
                 ociVars, iterVars, cacheVars>>

nonCacheVars == <<replVars, prVars, evtVars, abortVars, whdVars, cnudieVars,
                  ociVars, iterVars, passVars>>

\* the handler thread of a push event calls abort_running_jobs_if_configured:
\* the variables neither on_post nor the handler thread nor that call use
nonWhdVars == <<replVars, prVars, evtVars, cnudieVars, ociVars, iterVars, passVars, cacheVars>>

(***************************************************************************)
(* DeployStatus bit operations                                             *)
(***************************************************************************)
\* status & bit  (bit is a power of two)
HasBit(status, bit) == (status \div bit) % 2 = 1

\* status | bit
BitOr(status, bit) == IF HasBit(status, bit) THEN status ELSE status + bit

NoResult == [status |-> 0, err |-> "none"]

DeployResult(status, err) == [status |-> status, err |-> err]

(***************************************************************************)
(* Variable groups                                                         *)
(***************************************************************************)
cfgVars == <<unpause_pipelines, unpause_new_pipelines, expose_pipelines,
             cleanup_policy, remove_pipelines_filter, desc>>

renderVars == <<render_status, render_exception>>

lockVars == <<template_lock, pipeline_names_lock, pipeline_names>>

deployVars == <<deployed, set_calls, set_log, unpaused_dep, exposed>>

mainVars == <<main_pc, collected, todo_targets, existing, used_names, deleted,
              unpaused_proc, checked, reordered, notified,
              all_notifications_succeeded, ret,
              remove_pipelines>>

(***************************************************************************)
(* PipelineReplicator: the worker pool                                     *)
(***************************************************************************)
\* workers that have started and not yet finished their descriptor
Running == {d \in Descs : pc[d] \notin {"idle", "done", "raised"}}

\* The executor hands descriptor d to a free worker, in submission order.
\* _process_definition_descriptor: a descriptor carrying an enumeration error
\* is SKIPPED at once; otherwise it is preprocessed.  The preprocessor call is
\* not inside any try block: when it raises, the exception leaves the worker
\* and is stored in the future.
Start(d) ==
    /\ pc[d] = "idle"
    /\ \A e \in Descs : e < d => pc[e] # "idle"
    /\ Cardinality(Running) < max_workers
    /\ IF desc[d].exception # "None"
       THEN /\ result' = [result EXCEPT ![d] = DeployResult(SKIPPED, "enum")]
            /\ pc' = [pc EXCEPT ![d] = "done"]
       ELSE /\ \E preprocess_ok \in BOOLEAN :
                 pc' = [pc EXCEPT ![d] = IF preprocess_ok THEN "render"
                                         ELSE "raised"]
            /\ UNCHANGED result
    /\ UNCHANGED <<cfgVars, lockVars, deployVars, mainVars, renderVars, nonReplVars>>

\* Renderer._render up to the template lock: merging of the definitions,
\* template lookup, DefinitionFactory, main-repository check.  An exception
\* is caught by Renderer.render and becomes RenderStatus.FAILED.
RenderSetup(d) ==
    /\ pc[d] = "render"
    /\ \E ok \in BOOLEAN :
         IF ok
         THEN /\ pc' = [pc EXCEPT ![d] = "tpl_wait"]
              /\ UNCHANGED renderVars
         ELSE /\ pc' = [pc EXCEPT ![d] = "conflict"]
              /\ render_status' = [render_status EXCEPT ![d] = "FAILED"]
              /\ \E cls \in RaisedClasses :
                   render_exception' = [render_exception EXCEPT ![d] = cls]
    /\ UNCHANGED <<cfgVars, lockVars, deployVars, mainVars, result, nonReplVars>>

\* `with makoutil.template_lock:` is entered
AcquireTemplateLock(d) ==
    /\ pc[d] = "tpl_wait"
    /\ template_lock = 0
    /\ template_lock' = d
    /\ pc' = [pc EXCEPT ![d] = "compile"]
    /\ UNCHANGED <<cfgVars, pipeline_names_lock, pipeline_names, deployVars,
                   mainVars, result, renderVars, nonReplVars>>

\* mako.template.Template(...) is constructed inside the with block; the
\* block is left (the lock released) whether or not the constructor raised.
\* On success the worker goes on to call template.render(...), which is
\* outside the with block.
CompileTemplate(d) ==
    /\ pc[d] = "compile"
    /\ template_lock' = 0
    /\ \E ok \in BOOLEAN :
         IF ok
         THEN /\ pc' = [pc EXCEPT ![d] = "in_render"]
              /\ UNCHANGED renderVars
         ELSE /\ pc' = [pc EXCEPT ![d] = "conflict"]
              /\ render_status' = [render_status EXCEPT ![d] = "FAILED"]
              /\ \E cls \in RaisedClasses :
                   render_exception' = [render_exception EXCEPT ![d] = cls]
    /\ UNCHANGED <<cfgVars, pipeline_names_lock, pipeline_names, deployVars,
                   mainVars, result, nonReplVars>>

\* template.render(...) returns or raises (the exception is re-raised as a
\* RuntimeError and caught by Renderer.render)
ExitRender(d) ==
    /\ pc[d] = "in_render"
    /\ \E ok \in BOOLEAN :
         /\ render_status' = [render_status EXCEPT
                                ![d] = IF ok THEN "SUCCEEDED" ELSE "FAILED"]
         /\ render_exception' = [render_exception EXCEPT
                                   ![d] = IF ok THEN "None" ELSE "RuntimeError"]
    /\ pc' = [pc EXCEPT ![d] = "conflict"]
    /\ UNCHANGED <<cfgVars, lockVars, deployVars, mainVars, result, nonReplVars>>

\* _pipeline_name_conflict: `with self._pipeline_names_lock:` is entered
NamesLockAcquire_NoLock(d) ==
    /\ pc[d] = "conflict"
    /\ pipeline_names_lock' = d
    /\ pc' = [pc EXCEPT ![d] = "nc_test"]
    /\ UNCHANGED <<cfgVars, template_lock, pipeline_names, deployVars, mainVars,
                   result, renderVars, nonReplVars>>

NamesLockAcquire(d) ==
    /\ pc[d] = "conflict"
    /\ pipeline_names_lock = 0
    /\ pipeline_names_lock' = d
    /\ pc' = [pc EXCEPT ![d] = "nc_test"]
    /\ UNCHANGED <<cfgVars, template_lock, pipeline_names, deployVars, mainVars,
                   result, renderVars, nonReplVars>>

\* `if pipeline_name in self._pipeline_names: return True`; the caller then
\* returns the SKIPPED result 'duplicate pipeline name: <name>'
NamesTest(d) ==
    /\ pc[d] = "nc_test"
    /\ IF desc[d].name \in pipeline_names
       THEN /\ pipeline_names_lock' = 0
            /\ result' = [result EXCEPT ![d] = DeployResult(SKIPPED, "dup")]
            /\ pc' = [pc EXCEPT ![d] = "done"]
       ELSE /\ pc' = [pc EXCEPT ![d] = "nc_add"]
            /\ UNCHANGED <<pipeline_names_lock, result>>
    /\ UNCHANGED <<cfgVars, template_lock, pipeline_names, deployVars, mainVars,
                   renderVars, nonReplVars>>

\* `self._pipeline_names.add(pipeline_name)`, the with block is left and None
\* is returned.  The caller deploys if the rendering succeeded, and otherwise
\* returns a SKIPPED result carrying the render error details.
NamesAdd(d) ==
    /\ pc[d] = "nc_add"
    /\ pipeline_names' = pipeline_names \cup {desc[d].name}
    /\ pipeline_names_lock' = 0
    /\ IF render_status[d] = "SUCCEEDED"
       THEN /\ pc' = [pc EXCEPT ![d] = "deploy"]
            /\ UNCHANGED result
       ELSE /\ pc' = [pc EXCEPT ![d] = "done"]
            /\ result' = [result EXCEPT ![d] = DeployResult(SKIPPED, "render")]
    /\ UNCHANGED <<cfgVars, template_lock, deployVars, mainVars, renderVars,
                   nonReplVars>>

(***************************************************************************)
(* ConcourseDeployer.deploy                                                *)
(***************************************************************************)
\* what api.set_pipeline can return; "UNKNOWN" is any other value
SetPipelineResults == {"CREATED", "UPDATED", "UNKNOWN"}

\* `if self.unpause_pipelines: ... elif self.unpause_new_pipelines and
\*  response is SetPipelineResult.CREATED: ...`
ShouldUnpause_OnlyFlag(response) == unpause_pipelines

ShouldUnpause(response) ==
    \/ unpause_pipelines
    \/ unpause_new_pipelines /\ response = "CREATED"

\* deploy_status = SUCCEEDED, `|= CREATED` for a created pipeline
DeployStatusOf(response) ==
    IF response = "CREATED" THEN BitOr(SUCCEEDED, CREATED) ELSE SUCCEEDED

\* deploy() after set_pipeline returned `response`: unpause, expose, compose
\* the status.  Any exception (a failing unpause or expose call, the
\* NotImplementedError for an unknown response) is caught by the outer
\* `except Exception` and yields a FAILED result with the stack trace.
AfterSetPipeline(d, response) ==
    \E unpause_ok \in BOOLEAN, expose_ok \in BOOLEAN :
      LET unp       == ShouldUnpause(response)
          reach_exp == ~unp \/ unpause_ok
          exp       == reach_exp /\ expose_pipelines
          completed == /\ reach_exp
                       /\ ~exp \/ expose_ok
                       /\ response \in {"CREATED", "UPDATED"}
      IN /\ unpaused_dep' = IF unp THEN unpaused_dep \cup {d} ELSE unpaused_dep
         /\ exposed' = IF exp THEN exposed \cup {d} ELSE exposed
         /\ result' = [result EXCEPT
                         ![d] = IF completed
                                THEN DeployResult(DeployStatusOf(response), "none")
                                ELSE DeployResult(FAILED, "trace")]
         /\ pc' = [pc EXCEPT ![d] = "done"]

\* status code the except block of deploy() compares with
save_race_status == 500

\* some other status code of an HTTPError
other_status == 502

\* requests.exceptions.HTTPError raised by api.set_pipeline: the status code
\* and the content of its response ("race" is err_content, 'failed to save
\* config: comparison with existing config failed during save')
HTTPErrors ==
    [status : {save_race_status, other_status}, body : {"race", "other"}]

\* `e.response.status_code == 500 and e.response.content == err_content`
IsSaveRace_StatusOnly(e) == e.status = save_race_status

IsSaveRace(e) ==
    /\ e.status = save_race_status
    /\ e.body = "race"

\* what set_log records of a call that raised HTTPError e
ErrorKind(e) ==
    IF e.status = save_race_status /\ e.body = "race" THEN "save_race"
    ELSE "error"

\* deploy(): client lookup and the first api.set_pipeline call.  The call
\* returns a response, raises an HTTPError, or raises another exception
\* (other_error), which the inner except clause does not catch.
Deploy(d) ==
    /\ pc[d] = "deploy"
    /\ deployed' = deployed \cup {d}
    /\ \/ \* client_from_cfg_name raised
          /\ result' = [result EXCEPT ![d] = DeployResult(FAILED, "trace")]
          /\ pc' = [pc EXCEPT ![d] = "done"]
          /\ UNCHANGED <<set_calls, set_log, unpaused_dep, exposed>>
       \/ \E e \in HTTPErrors :
            /\ set_calls' = [set_calls EXCEPT ![d] = 1]
            /\ set_log' = [set_log EXCEPT ![d] = <<ErrorKind(e)>>]
            /\ IF IsSaveRace(e)
               THEN \* sleep, then retry
                    /\ pc' = [pc EXCEPT ![d] = "retry"]
                    /\ UNCHANGED <<result, unpaused_dep, exposed>>
               ELSE \* re-raised and caught by the outer except
                    /\ result' = [result EXCEPT ![d] = DeployResult(FAILED, "trace")]
                    /\ pc' = [pc EXCEPT ![d] = "done"]
                    /\ UNCHANGED <<unpaused_dep, exposed>>
       \/ \* other_error: caught by the outer except
          /\ set_calls' = [set_calls EXCEPT ![d] = 1]
          /\ set_log' = [set_log EXCEPT ![d] = <<"error">>]
          /\ result' = [result EXCEPT ![d] = DeployResult(FAILED, "trace")]
          /\ pc' = [pc EXCEPT ![d] = "done"]
          /\ UNCHANGED <<unpaused_dep, exposed>>
       \/ \E response \in SetPipelineResults :
            /\ set_calls' = [set_calls EXCEPT ![d] = 1]
            /\ set_log' = [set_log EXCEPT ![d] = <<"ok">>]
            /\ AfterSetPipeline(d, response)
    /\ UNCHANGED <<cfgVars, lockVars, mainVars, renderVars, nonReplVars>>

\* the second api.set_pipeline call, inside the except block: an exception
\* it raises (a further save race included) is caught by the outer except
DeployRetry(d) ==
    /\ pc[d] = "retry"
    /\ set_calls' = [set_calls EXCEPT ![d] = 2]
    /\ \/ \E e \in HTTPErrors :
            /\ set_log' = [set_log EXCEPT ![d] = Append(@, ErrorKind(e))]
            /\ result' = [result EXCEPT ![d] = DeployResult(FAILED, "trace")]
            /\ pc' = [pc EXCEPT ![d] = "done"]
            /\ UNCHANGED <<unpaused_dep, exposed>>
       \/ \E response \in SetPipelineResults :
            /\ set_log' = [set_log EXCEPT ![d] = Append(@, "ok")]
            /\ AfterSetPipeline(d, response)
    /\ UNCHANGED <<cfgVars, lockVars, mainVars, renderVars, deployed, nonReplVars>>

(***************************************************************************)
(* PipelineReplicator.replicate: collecting the results                    *)
(***************************************************************************)
\* `results = [result for result in self._replicate()]`: executor.map yields
\* the results in submission order and blocks until the next one is there.
\* A future holding an exception re-raises it: replicate() is left with that
\* exception and process_results is never called.
Collect ==
    /\ main_pc = "collect"
    /\ collected < NumDesc
    /\ LET d == collected + 1
       IN \/ /\ pc[d] = "done"
             /\ collected' = d
             /\ UNCHANGED main_pc
          \/ /\ pc[d] = "raised"
             /\ main_pc' = "raised"
             /\ UNCHANGED collected
    /\ UNCHANGED <<cfgVars, lockVars, deployVars, pc, renderVars, result,
                   todo_targets, existing, used_names, deleted, unpaused_proc,
                   checked, reordered, notified, all_notifications_succeeded,
                   ret, remove_pipelines, nonReplVars>>

\* the list comprehension has consumed every result of the pool
ResultsComplete_Partial == collected >= 1

ResultsComplete == collected = NumDesc

(***************************************************************************)
(* ReplicationResultProcessor.process_results                              *)
(***************************************************************************)
RECURSIVE TargetOrderUpTo(_)
\* keys of concourse_target_results in insertion order (first appearance of
\* the target among the first n results)
TargetOrderUpTo(n) ==
    IF n = 0 THEN <<>>
    ELSE LET prev == TargetOrderUpTo(n - 1)
         IN IF \E i \in 1..Len(prev) : prev[i] = desc[n].target
            THEN prev
            ELSE Append(prev, desc[n].target)

\* `[d for d in results if not d.deploy_status & DeployStatus.SUCCEEDED]`
failed_descriptors_OnlyFailedBit ==
    {d \in 1..collected : HasBit(result[d].status, FAILED)}

failed_descriptors_OnlySkipped ==
    {d \in 1..collected : result[d].status = SKIPPED}

failed_descriptors ==
    {d \in 1..collected : ~HasBit(result[d].status, SUCCEEDED)}

\* the results grouped under target t
TargetResults(t) == {d \in 1..collected : desc[d].target = t}

\* `set(map(lambda r: r.definition_descriptor.pipeline_name, concourse_results))`
deployed_pipeline_names(t) == {desc[d].name : d \in TargetResults(t)}

\* `set(concourse_api.pipelines()) - deployed_pipeline_names`, then the names
\* for which remove_pipelines_filter returns true are taken out
pipelines_to_remove_FilterInverted(on_backend, deployed_names) ==
    LET candidates == on_backend \ deployed_names
    IN IF remove_pipelines_filter.given
       THEN {n \in candidates : n \in remove_pipelines_filter.keep}
       ELSE candidates

pipelines_to_remove(on_backend, deployed_names) ==
    LET candidates == on_backend \ deployed_names
    IN IF remove_pipelines_filter.given
       THEN {n \in candidates : n \notin remove_pipelines_filter.keep}
       ELSE candidates

\* results of target t with the CREATED bit
newly_deployed(t) ==
    {d \in TargetResults(t) : HasBit(result[d].status, CREATED)}

\* process_results is entered: the results are grouped by target, the failed
\* ones are counted and remove_pipelines is switched off if there is any
ProcessBegin ==
    /\ main_pc = "collect"
    /\ ResultsComplete
    /\ main_pc' = "targets"
    /\ todo_targets' = TargetOrderUpTo(collected)
    /\ remove_pipelines' = IF Cardinality(failed_descriptors) > 0
                           THEN FALSE
                           ELSE remove_pipelines
    /\ UNCHANGED <<cfgVars, lockVars, deployVars, pc, renderVars, result,
                   collected, existing, used_names, deleted, unpaused_proc,
                   checked, reordered, notified, all_notifications_succeeded,
                   ret, nonReplVars>>

\* one iteration of `for concourse_target_key, concourse_results in ...`:
\* cleanup, _initialise_new_pipeline_resources, reordering.  on_backend is
\* what the backend holds; a call of the backend client may raise (fail_at),
\* which ends process_results with that exception.
ProcessTarget ==
    /\ main_pc = "targets"
    /\ todo_targets # <<>>
    /\ LET t == Head(todo_targets)
       IN \E on_backend \in BackendChoices,
             fail_at \in {"none", "cleanup", "init", "reorder"} :
            LET names     == deployed_pipeline_names(t)
                to_remove == IF remove_pipelines
                             THEN pipelines_to_remove(on_backend, names)
                             ELSE {}
                new       == newly_deployed(t)
                Removed(S) == deleted \cup {<<t, n>> : n \in S}
            IN /\ existing' = [existing EXCEPT ![t] = on_backend]
               /\ used_names' = IF remove_pipelines
                                THEN [used_names EXCEPT ![t] = names]
                                ELSE used_names
               /\ CASE fail_at = "cleanup" ->
                         \E S \in SUBSET to_remove :
                            /\ deleted' = Removed(S)
                            /\ main_pc' = "raised"
                            /\ UNCHANGED <<unpaused_proc, checked, reordered,
                                           todo_targets>>
                    [] fail_at = "init" ->
                         \E U \in SUBSET new :
                            /\ deleted' = Removed(to_remove)
                            /\ unpaused_proc' = IF unpause_new_pipelines
                                                THEN unpaused_proc \cup U
                                                ELSE unpaused_proc
                            /\ checked' = checked \cup U
                            /\ main_pc' = "raised"
                            /\ UNCHANGED <<reordered, todo_targets>>
                    [] fail_at = "reorder" ->
                         /\ deleted' = Removed(to_remove)
                         /\ unpaused_proc' = IF unpause_new_pipelines
                                             THEN unpaused_proc \cup new
                                             ELSE unpaused_proc
                         /\ checked' = checked \cup new
                         /\ main_pc' = "raised"
                         /\ UNCHANGED <<reordered, todo_targets>>
                    [] OTHER ->
                         /\ deleted' = Removed(to_remove)
                         /\ unpaused_proc' = IF unpause_new_pipelines
                                             THEN unpaused_proc \cup new
                                             ELSE unpaused_proc
                         /\ checked' = checked \cup new
                         /\ reordered' = reordered \cup {t}
                         /\ todo_targets' = Tail(todo_targets)
                         /\ UNCHANGED main_pc
    /\ UNCHANGED <<cfgVars, lockVars, deployVars, pc, renderVars, result,
                   collected, notified, all_notifications_succeeded, ret,
                   remove_pipelines, nonReplVars>>

\* exception classes of ignore_exceptions among ExcClasses
ignore_exceptions == {"OSError"}

\* should_notify_pipeline_owners(deploy_result): the class looked at is the
\* one of deploy_result.definition_descriptor.exception
should_notify_pipeline_owners(d) ==
    IF HasBit(result[d].status, SUCCEEDED)
    THEN FALSE
    ELSE desc[d].exception \notin ignore_exceptions

\* the rest of process_results: the return value, and the notification of
\* the owners of failed descriptors, in result order.  The branch taken when
\* should_notify_pipeline_owners returns False formats
\* failed_descriptor.pipeline_name, an attribute DeployResult does not have:
\* the AttributeError ends process_results.  A notification that raises is
\* caught and makes the return value False.
ProcessEnd ==
    /\ main_pc = "targets"
    /\ todo_targets = <<>>
    /\ LET failed     == failed_descriptors
           suppressed == {d \in failed : ~should_notify_pipeline_owners(d)}
           Before(n)  == {d \in failed : d < n}
       IN IF failed = {}
          THEN /\ ret' = "True"
               /\ main_pc' = "returned"
               /\ UNCHANGED <<notified, all_notifications_succeeded>>
          ELSE IF suppressed # {}
          THEN LET s == CHOOSE d \in suppressed : \A e \in suppressed : d <= e
               IN \E raising \in SUBSET Before(s) :
                    /\ notified' = notified \cup Before(s)
                    /\ all_notifications_succeeded' = (raising = {})
                    /\ main_pc' = "raised"
                    /\ UNCHANGED ret
          ELSE \E raising \in SUBSET failed :
                  /\ notified' = notified \cup failed
                  /\ all_notifications_succeeded' = (raising = {})
                  /\ ret' = IF raising = {} THEN "True" ELSE "False"
                  /\ main_pc' = "returned"
    /\ UNCHANGED <<cfgVars, lockVars, deployVars, pc, renderVars, result,
                   collected, todo_targets, existing, used_names, deleted,
                   unpaused_proc, checked, reordered, remove_pipelines, nonReplVars>>

(***************************************************************************)
(* whd/pull_request.py: ensure_pr_resource_updates                         *)
(***************************************************************************)
\* pull-request resources of the batch
Resources == {"r1", "r2"}

\* resource.source.get('label'): r1 requires a label, r2 does not
RequiredLabel(r) == IF r = "r1" THEN "reviewed/ok-to-test" ELSE "None"

\* default of the retries parameter
DefaultRetries == 10

\* is_up_to_date(resource, resource_versions); listed: the PR number is among
\* the pr numbers of the resource's versions
is_up_to_date_NoLabel(r, listed) == listed

is_up_to_date(r, listed) ==
    IF RequiredLabel(r) # "None" /\ RequiredLabel(r) \notin label_names
    THEN TRUE
    ELSE listed

\* One invocation of ensure_pr_resource_updates (the function calls itself at
\* its end).  failing: the resources currently failing to check; listing: the
\* resources whose versions hold the PR.  `retries -= 1; if retries < 0:`
\* only logs 'giving up': the function goes on.
EnsureCall ==
    /\ pr_pc = "call"
    /\ checks < MaxRounds
    /\ retries' = retries - 1
    /\ gave_up' = (gave_up \/ retries - 1 < 0)
    /\ checks' = checks + 1
    /\ \E failing \in SUBSET outdated, listing \in SUBSET outdated :
         LET outdated_resources ==
               {r \in outdated : r \in failing \/ ~is_up_to_date(r, r \in listing)}
         IN /\ round_resources' = outdated
            /\ failing_to_check' = failing
            /\ pr_listed' = listing
            /\ trigger_resources' = outdated_resources
            /\ IF outdated_resources = {}
               THEN /\ pr_pc' = "returned"
                    /\ UNCHANGED <<outdated, triggers>>
               ELSE /\ triggers' = triggers + 1
                    /\ outdated' = outdated_resources
                    /\ UNCHANGED pr_pc
    /\ UNCHANGED <<retries0, label_names, nonPRVars>>

(***************************************************************************)
(* whd/pull_request.py: process_pr_event                                   *)
(***************************************************************************)
\* upper bound of the number of concourse clients handed to process_pr_event
NumClients == 2

\* PullRequestAction values; "CLOSED" stands for every other action
Actions == {"OPENED", "SYNCHRONIZE", "LABELED", "CLOSED"}

\* labels set by gardener-robot/prow in reaction to "/lgtm"
LgtmLabels == {"lgtm", "reviewed/lgtm"}

\* label of a LABELED event
EventLabels == LgtmLabels \cup {"reviewed/ok-to-test", "kind/bug"}

\* tagging_label handed to validate_pipeline_definitions
TaggingLabel == "ci/broken-pipeline-definition"

\* pr_event.hostname()
EventHost == "github.com"

\* entries of job_mapping.trusted_teams(), split at '/'
TeamEntries ==
    { <<"org", "dev">>,
      <<"github.com", "org", "ops">>,
      <<"other.host", "org", "ops">>,
      <<"other.host", "org", "qa">>,
      <<"malformed">> }

\* the <org>/<team> names is_team_member can be asked about
TeamNames == { <<"org", "dev">>, <<"org", "ops">>, <<"org", "qa">> }

\* resource.source.get('label') of the pull-request resources a client can
\* hold for the repository of the event: those of Resources, and r3, which
\* requires the label lgtm
SourceLabel(r) == IF r = "r3" THEN "lgtm" ELSE RequiredLabel(r)

\* the lists matching_resources can return for one client
BatchChoices == {{}, {"r1"}, {"r2"}, {"r1", "r2"}, {"r1", "r3"}}

\* `{resource.source.get('label') for resource in resources
\*   if resource.source.get('label') is not None}`
required_labels(resources) == {SourceLabel(r) : r \in resources} \ {"None"}

\* iter_trusted_teams_for_hostname: the <org>/<team> names yielded
iter_trusted_teams_for_hostname_NoHostFilter(teams, hostname) ==
    {t \in teams : Len(t) = 2}
      \cup {<<t[2], t[3]>> : t \in {u \in teams : Len(u) = 3}}

iter_trusted_teams_for_hostname(teams, hostname) ==
    {t \in teams : Len(t) = 2}
      \cup {<<t[2], t[3]>> : t \in {u \in teams : Len(u) = 3 /\ u[1] = hostname}}

\* _should_label: "raise" is the ValueError for an entry that has neither two
\* nor three parts
should_label_OrgFallback(teams, hostname, memberships, is_org_member) ==
    IF \E t \in teams : Len(t) \notin {2, 3}
    THEN "raise"
    ELSE IF \E t \in iter_trusted_teams_for_hostname(teams, hostname) :
                t \in memberships
         THEN "True"
         ELSE IF is_org_member THEN "True" ELSE "False"

should_label(teams, hostname, memberships, is_org_member) ==
    IF \E t \in teams : Len(t) \notin {2, 3}
    THEN "raise"
    ELSE LET trusted == iter_trusted_teams_for_hostname(teams, hostname)
         IN IF trusted # {}
            THEN IF \E t \in trusted : t \in memberships
                 THEN "True" ELSE "False"
            ELSE IF is_org_member THEN "True" ELSE "False"

\* the comment set_pr_labels posts for an OPENED event of an untrusted sender
ExplanatoryComment(i, labels) ==
    [kind |-> "label-required", batch |-> i, login |-> sender_login,
     labels |-> labels]

\* comments of validate_pipeline_definitions
ValidationComment(kind) ==
    [kind |-> kind, batch |-> 0, login |-> "None", labels |-> {}]

\* set_pr_labels(pr_event, github_helper, cfg_set, resources) for batch i:
\* the return value ("raise": the ValueError of a missing job mapping or of
\* _should_label), the labels added and the comments posted
set_pr_labels_LabelAlways(i, resources) ==
    [ret |-> "True", labels |-> required_labels(resources), comments |-> {}]

set_pr_labels(i, resources) ==
    LET required == required_labels(resources)
        trusted  == should_label(trusted_teams, EventHost, member_of, org_member)
        Out(r, l, c) == [ret |-> r, labels |-> l, comments |-> c]
    IN IF required = {} THEN Out("True", {}, {})
       ELSE IF ~has_job_mapping THEN Out("raise", {}, {})
       ELSE IF action = "OPENED"
            THEN CASE trusted = "raise" -> Out("raise", {}, {})
                   [] trusted = "True" -> Out("True", required, {})
                   [] OTHER -> Out("False", {}, {ExplanatoryComment(i, required)})
       ELSE IF action = "SYNCHRONIZE"
            THEN CASE trusted = "raise" -> Out("raise", {}, {})
                   [] trusted = "True" -> Out("True", required, {})
                   [] OTHER -> Out("False", {}, {})
       ELSE IF action = "LABELED" /\ event_label \in LgtmLabels
            THEN Out("True", required, {})
       ELSE Out("False", {}, {})

\* process_pr_event up to its loop: without a github helper the function
\* returns; validate_pipeline_definitions runs for an OPENED or SYNCHRONIZE
\* event of a pull request that modified .ci/pipeline_definitions
ProcessPrEventBegin ==
    /\ ev_pc = "begin"
    /\ IF ~has_github_helper
       THEN /\ ev_pc' = "returned"
            /\ UNCHANGED <<labels_added, labels_removed, comments>>
       ELSE /\ ev_pc' = "batches"
            /\ IF modified /\ action \in {"OPENED", "SYNCHRONIZE"}
               THEN IF ~validation_ok
                    THEN /\ comments' = comments \cup {ValidationComment("broken")}
                         /\ labels_added' =
                              IF TaggingLabel \notin label_names
                              THEN labels_added \cup {<<0, TaggingLabel>>}
                              ELSE labels_added
                         /\ UNCHANGED labels_removed
                    ELSE IF TaggingLabel \in label_names
                         THEN /\ labels_removed' = labels_removed \cup {TaggingLabel}
                              /\ comments' = comments \cup {ValidationComment("fixed")}
                              /\ UNCHANGED labels_added
                         ELSE UNCHANGED <<labels_added, labels_removed, comments>>
               ELSE UNCHANGED <<labels_added, labels_removed, comments>>
    /\ UNCHANGED <<evtInputs, batch, checks_triggered, updates_entered,
                   untriggered_handled, nonEvtVars>>

\* the event's label is no lgtm label, some label is required and the
\* event's label is not among the required ones
LabelNotRequired_AnyBatch(required) ==
    /\ event_label \notin LgtmLabels
    /\ event_label \notin required

LabelNotRequired(required) ==
    /\ event_label \notin LgtmLabels
    /\ required # {}
    /\ event_label \notin required

\* one iteration of `for concourse_api in concourse_clients:`
ProcessBatch ==
    /\ ev_pc = "batches"
    /\ batch <= Len(concourse_clients)
    /\ LET i         == batch
           resources == concourse_clients[i]
           required  == required_labels(resources)
           labeled   == action = "LABELED"
           skip_lgtm == labeled /\ event_label \in LgtmLabels
                                /\ event_label \in required
           skip_other == labeled /\ LabelNotRequired(required)
           calls     == /\ resources # {}
                        /\ \/ labeled /\ event_label \in LgtmLabels /\ ~skip_lgtm
                           \/ action \in {"OPENED", "SYNCHRONIZE"}
           out       == set_pr_labels(i, resources)
           raised    == calls /\ out.ret = "raise"
           continue  == \/ resources = {}
                        \/ skip_lgtm
                        \/ skip_other
                        \/ /\ action \in {"OPENED", "SYNCHRONIZE"}
                           /\ out.ret = "False"
       IN /\ labels_added' = IF calls
                             THEN labels_added \cup {<<i, l>> : l \in out.labels}
                             ELSE labels_added
          /\ comments' = IF calls THEN comments \cup out.comments ELSE comments
          /\ IF raised
             THEN /\ ev_pc' = "raised"
                  /\ UNCHANGED <<batch, checks_triggered, updates_entered,
                                 untriggered_handled>>
             ELSE /\ batch' = i + 1
                  /\ UNCHANGED ev_pc
                  /\ IF continue
                     THEN UNCHANGED <<checks_triggered, updates_entered,
                                      untriggered_handled>>
                     ELSE /\ checks_triggered' = checks_triggered \cup {i}
                          /\ updates_entered' = updates_entered \cup {i}
                          /\ untriggered_handled' = untriggered_handled \cup {i}
    /\ UNCHANGED <<evtInputs, labels_removed, nonEvtVars>>

\* the loop over the clients has ended
ProcessPrEventEnd ==
    /\ ev_pc = "batches"
    /\ batch > Len(concourse_clients)
    /\ ev_pc' = "returned"
    /\ UNCHANGED <<evtInputs, batch, labels_added, labels_removed, comments,
                   checks_triggered, updates_entered, untriggered_handled,
                   nonEvtVars>>

(***************************************************************************)
(* whd/dispatcher.py: abort_running_jobs_if_configured                     *)
(***************************************************************************)
\* upper bound of the number of builds client.job_builds returns
MaxBuilds == 6

\* upper bound of the number of affected pipelines, and of jobs per pipeline
NumPipelines == 2

\* `builds_to_consider = 5`
builds_to_consider == 5

\* concourse.model.job.AbortObsoleteJobs
AbortObsoleteJobs == {"never", "on_force_push_only", "always"}

\* a job that determine_jobs_to_be_triggered yields: whether the effective
\* definition has the job with an 'abort_outdated_jobs' entry, and the policy
\* AbortConfig.from_dict reads from it
JobKinds ==
    {[configured |-> FALSE, policy |-> "never"]}
      \cup [configured : {TRUE}, policy : AbortObsoleteJobs]

\* an affected pipeline: is there a client for its team, what
\* client.pipeline_cfg does (returns, raises HTTP 404, raises another
\* HTTPError), and its jobs
PipelineKinds(jobLists) ==
    {[client |-> FALSE, cfg |-> "ok", jobs |-> <<>>],
     [client |-> TRUE, cfg |-> "404", jobs |-> <<>>],
     [client |-> TRUE, cfg |-> "error", jobs |-> <<>>]}
      \cup [client : {TRUE}, cfg : {"ok"}, jobs : jobLists]

\* a build: its status is RUNNING or not, and its plan references
\* push_event.previous_ref() or not
BuildKinds ==
    {[running |-> TRUE, prev |-> TRUE],
     [running |-> TRUE, prev |-> FALSE],
     [running |-> FALSE, prev |-> TRUE]}

\* sequences over S of length at most n
SeqUpTo(S, n) == UNION {[1..k -> S] : k \in 0..n}

\* `[b for b in client.job_builds(...) if b.status() is RUNNING]
\*  [:builds_to_consider]`, as indexes into job_builds
running_builds_NoLimit ==
    {i \in 1..Len(job_builds) : job_builds[i].running}

running_builds ==
    LET running == {i \in 1..Len(job_builds) : job_builds[i].running}
    IN {i \in running :
          Cardinality({k \in running : k < i}) < builds_to_consider}

\* the if/elif chain on abort_cfg.abort_obsolete_jobs: "continue", "pass" or
\* "raise" (the NotImplementedError of the else branch)
PolicyBranch(policy) ==
    IF policy = "never" THEN "continue"
    ELSE IF policy = "on_force_push_only" /\ ~is_forced_push THEN "continue"
    ELSE IF policy = "always" THEN "pass"
    ELSE "raise"

\* the head of one iteration of `for pipeline in determine_affected_pipelines`:
\* client lookup and client.pipeline_cfg
AbortPipeline ==
    /\ ab_pc = "pipelines"
    /\ pipeline_idx < Len(pipelines)
    /\ LET p == pipelines[pipeline_idx + 1]
       IN /\ pipeline_idx' = pipeline_idx + 1
          /\ job_idx' = 0
          /\ ab_pc' = IF ~p.client \/ p.cfg = "404" THEN "pipelines"
                      ELSE IF p.cfg = "error" THEN "raised"
                      ELSE "jobs"
    /\ UNCHANGED <<abortInputs, handled, aborted, nonAbortVars>>

\* one iteration of `for job in determine_jobs_to_be_triggered(resources)`
AbortJob ==
    /\ ab_pc = "jobs"
    /\ job_idx < Len(pipelines[pipeline_idx].jobs)
    /\ LET j      == job_idx + 1
           job    == pipelines[pipeline_idx].jobs[j]
           branch == IF job.configured THEN PolicyBranch(job.policy)
                     ELSE "continue"
       IN /\ job_idx' = j
          /\ handled' = handled \cup {<<pipeline_idx, j>>}
          /\ ab_pc' = IF branch = "raise" THEN "raised" ELSE "jobs"
          /\ aborted' =
               IF branch = "pass"
               THEN aborted \cup {<<pipeline_idx, j, i>> :
                                    i \in {b \in running_builds : job_builds[b].prev}}
               ELSE aborted
    /\ UNCHANGED <<abortInputs, pipeline_idx, nonAbortVars>>

\* the jobs of the pipeline are exhausted
AbortJobsDone ==
    /\ ab_pc = "jobs"
    /\ job_idx = Len(pipelines[pipeline_idx].jobs)
    /\ ab_pc' = "pipelines"
    /\ UNCHANGED <<abortInputs, pipeline_idx, job_idx, handled, aborted,
                   nonAbortVars>>

\* the affected pipelines are exhausted
AbortEnd ==
    /\ ab_pc = "pipelines"
    /\ pipeline_idx = Len(pipelines)
    /\ ab_pc' = "returned"
    /\ UNCHANGED <<abortInputs, pipeline_idx, job_idx, handled, aborted,
                   nonAbortVars>>

(***************************************************************************)
(* Initial states and specifications                                       *)
(***************************************************************************)
\* model.concourse.PipelineCleanupPolicy
CleanupPolicy == {"CLEANUP_EXTRA_PIPELINES", "NO_CLEANUP"}

\* remove_pipelines_filter: None, or a callable keeping the names of `keep`
FilterChoices ==
    {[given |-> FALSE, keep |-> {}]}
      \cup {[given |-> TRUE, keep |-> K] : K \in {{"old"}, {"foo", "bar"}}}

\* the arguments of replicate_pipelines left at their defaults, and no
\* NO_CLEANUP policy
DefaultFlags ==
    /\ unpause_pipelines = TRUE
    /\ unpause_new_pipelines = TRUE
    /\ expose_pipelines = TRUE

DefaultCleanup ==
    /\ cleanup_policy = "CLEANUP_EXTRA_PIPELINES"
    /\ remove_pipelines_filter = [given |-> FALSE, keep |-> {}]

\* descriptors without enumeration error, alternating between two pipelines
DefaultDesc ==
    [d \in Descs |-> IF d % 2 = 1
                     THEN [name |-> "foo", target |-> "t1", exception |-> "None"]
                     ELSE [name |-> "bar", target |-> "t2", exception |-> "None"]]

\* The inputs of a run.  Each group varies one part of the input over all its
\* values and leaves the others at the defaults:
\*   - the names and targets of the descriptors (names and targets are
\*     interchangeable, so those of the first descriptor are fixed),
\*   - the flags of the deployer and of the result processor,
\*   - the cleanup policy and the remove_pipelines_filter,
\*   - the enumeration errors the descriptors carry.
ReplInputs ==
    \/ /\ DefaultFlags
       /\ DefaultCleanup
       /\ desc \in [Descs -> [name : Names, target : Targets, exception : {"None"}]]
       /\ desc[1].name = "foo"
       /\ desc[1].target = "t1"
    \/ /\ unpause_pipelines \in BOOLEAN
       /\ unpause_new_pipelines \in BOOLEAN
       /\ expose_pipelines \in BOOLEAN
       /\ DefaultCleanup
       /\ desc = DefaultDesc
    \/ /\ DefaultFlags
       /\ cleanup_policy \in CleanupPolicy
       /\ remove_pipelines_filter \in FilterChoices
       /\ desc = DefaultDesc
    \/ /\ DefaultFlags
       /\ DefaultCleanup
       /\ desc \in [Descs -> [name : {"foo"}, target : {"t1"}, exception : ExcClasses]]

\* ReplicationResultProcessor.__init__: remove_pipelines defaults to True and
\* is switched off when the job mapping's policy is NO_CLEANUP
ReplInit ==
    /\ ReplInputs
    /\ remove_pipelines = (cleanup_policy # "NO_CLEANUP")
    /\ pc = [d \in Descs |-> "idle"]
    /\ render_status = [d \in Descs |-> "none"]
    /\ render_exception = [d \in Descs |-> "None"]
    /\ template_lock = 0
    /\ pipeline_names_lock = 0
    /\ pipeline_names = {}
    /\ result = [d \in Descs |-> NoResult]
    /\ deployed = {}
    /\ set_calls = [d \in Descs |-> 0]
    /\ set_log = [d \in Descs |-> <<>>]
    /\ unpaused_dep = {}
    /\ exposed = {}
    /\ main_pc = "collect"
    /\ collected = 0
    /\ todo_targets = <<>>
    /\ existing = [t \in Targets |-> {}]
    /\ used_names = [t \in Targets |-> {}]
    /\ deleted = {}
    /\ unpaused_proc = {}
    /\ checked = {}
    /\ reordered = {}
    /\ notified = {}
    /\ all_notifications_succeeded = TRUE
    /\ ret = "none"

\* no replication run
ReplIdle ==
    /\ unpause_pipelines = TRUE
    /\ unpause_new_pipelines = TRUE
    /\ expose_pipelines = TRUE
    /\ cleanup_policy = "CLEANUP_EXTRA_PIPELINES"
    /\ remove_pipelines = TRUE
    /\ remove_pipelines_filter = [given |-> FALSE, keep |-> {}]
    /\ desc = [d \in Descs |-> [name |-> "foo", target |-> "t1", exception |-> "None"]]
    /\ pc = [d \in Descs |-> "done"]
    /\ render_status = [d \in Descs |-> "none"]
    /\ render_exception = [d \in Descs |-> "None"]
    /\ template_lock = 0
    /\ pipeline_names_lock = 0
    /\ pipeline_names = {}
    /\ result = [d \in Descs |-> NoResult]
    /\ deployed = {}
    /\ set_calls = [d \in Descs |-> 0]
    /\ set_log = [d \in Descs |-> <<>>]
    /\ unpaused_dep = {}
    /\ exposed = {}
    /\ main_pc = "returned"
    /\ collected = 0
    /\ todo_targets = <<>>
    /\ existing = [t \in Targets |-> {}]
    /\ used_names = [t \in Targets |-> {}]
    /\ deleted = {}
    /\ unpaused_proc = {}
    /\ checked = {}
    /\ reordered = {}
    /\ notified = {}
    /\ all_notifications_succeeded = TRUE
    /\ ret = "none"

PRInit ==
    /\ pr_pc = "call"
    /\ retries0 \in {0, 1, 2, DefaultRetries}
    /\ retries = retries0
    /\ label_names \in {{}, {"reviewed/ok-to-test"}}
    /\ outdated \in SUBSET Resources
    /\ checks = 0
    /\ triggers = 0
    /\ gave_up = FALSE
    /\ round_resources = {}
    /\ failing_to_check = {}
    /\ pr_listed = {}
    /\ trigger_resources = {}

\* no pull-request event
PRIdle ==
    /\ pr_pc = "idle"
    /\ retries0 = 0
    /\ retries = 0
    /\ label_names = {}
    /\ outdated = {}
    /\ checks = 0
    /\ triggers = 0
    /\ gave_up = FALSE
    /\ round_resources = {}
    /\ failing_to_check = {}
    /\ pr_listed = {}
    /\ trigger_resources = {}

\* pr_event.sender()['login']
Logins == {"alice", "mallory"}

\* job_mapping.trusted_teams(): every set of well-formed entries for two
\* teams, and two lists with a malformed entry
TeamLists ==
    (SUBSET (TeamEntries \ {<<"malformed">>, <<"other.host", "org", "qa">>}))
      \cup {{<<"other.host", "org", "qa">>},
            {<<"malformed">>},
            {<<"malformed">>, <<"org", "dev">>}}

\* process_pr_event is called; nothing has been done yet, and no
\* ensure_pr_resource_updates call is modelled on its own
EvtStart ==
    /\ ev_pc = "begin"
    /\ batch = 1
    /\ labels_added = {}
    /\ labels_removed = {}
    /\ comments = {}
    /\ checks_triggered = {}
    /\ updates_entered = {}
    /\ untriggered_handled = {}
    /\ pr_pc = "idle"
    /\ retries0 = 0
    /\ retries = 0
    /\ outdated = {}
    /\ checks = 0
    /\ triggers = 0
    /\ gave_up = FALSE
    /\ round_resources = {}
    /\ failing_to_check = {}
    /\ pr_listed = {}
    /\ trigger_resources = {}

\* The events process_pr_event is called with.  Each group varies one part
\* of the input and leaves the others at a default:
\*   - OPENED and SYNCHRONIZE events: the trusted teams, the memberships of
\*     the sender, the job mapping, the clients' resources,
\*   - LABELED events: the label, the sender, the clients' resources,
\*   - all actions: the github helper and the validation of the pipeline
\*     definitions.
EvtInputs ==
    \/ /\ action \in {"OPENED", "SYNCHRONIZE"}
       /\ event_label = "None"
       /\ sender_login = "mallory"
       /\ trusted_teams \in TeamLists
       /\ member_of \in SUBSET (TeamNames \ {<<"org", "qa">>})
       /\ org_member \in BOOLEAN
       /\ has_job_mapping \in BOOLEAN
       /\ has_github_helper = TRUE
       /\ modified = FALSE
       /\ validation_ok = TRUE
       /\ label_names = {}
       /\ concourse_clients \in SeqUpTo(BatchChoices, NumClients)
    \/ /\ action = "LABELED"
       /\ event_label \in EventLabels
       /\ sender_login \in Logins
       /\ trusted_teams = {}
       /\ member_of = {}
       /\ org_member \in BOOLEAN
       /\ has_job_mapping \in BOOLEAN
       /\ has_github_helper = TRUE
       /\ modified = FALSE
       /\ validation_ok = TRUE
       /\ label_names \in {{event_label}, {event_label, "reviewed/ok-to-test"}}
       /\ concourse_clients \in SeqUpTo(BatchChoices, NumClients)
    \/ /\ action \in Actions
       /\ event_label = (IF action = "LABELED" THEN "kind/bug" ELSE "None")
       /\ sender_login \in Logins
       /\ trusted_teams = {}
       /\ member_of = {}
       /\ org_member \in BOOLEAN
       /\ has_job_mapping = TRUE
       /\ has_github_helper \in BOOLEAN
       /\ modified \in BOOLEAN
       /\ validation_ok \in BOOLEAN
       /\ label_names \in {{}, {TaggingLabel}}
       /\ concourse_clients \in {<<>>, <<{"r1", "r2"}>>}

EvtInit == EvtInputs /\ EvtStart

\* no pull-request event is being processed
EvtIdle ==
    /\ ev_pc = "idle"
    /\ action = "CLOSED"
    /\ event_label = "None"
    /\ sender_login = "alice"
    /\ trusted_teams = {}
    /\ member_of = {}
    /\ org_member = TRUE
    /\ has_job_mapping = TRUE
    /\ has_github_helper = TRUE
    /\ modified = FALSE
    /\ validation_ok = TRUE
    /\ concourse_clients = <<>>
    /\ batch = 1
    /\ labels_added = {}
    /\ labels_removed = {}
    /\ comments = {}
    /\ checks_triggered = {}
    /\ updates_entered = {}
    /\ untriggered_handled = {}

\* upper bound of the number of jobs of a pipeline
NumJobs == 2

\* a job with the policy `always`, and build lists for the runs that vary
\* the pipelines
AlwaysJob == [configured |-> TRUE, policy |-> "always"]

DefaultBuilds ==
    {<<>>,
     <<[running |-> TRUE, prev |-> TRUE], [running |-> TRUE, prev |-> FALSE],
       [running |-> FALSE, prev |-> TRUE]>>}

\* The push events abort_running_jobs_if_configured is called with:
\*   - one pipeline with one job: every policy and every list of builds,
\*   - one pipeline with every list of jobs,
\*   - every list of pipelines, each with no job or with one job.
AbortInputs ==
    \/ /\ is_forced_push \in BOOLEAN
       /\ \E policy \in AbortObsoleteJobs :
            pipelines = <<[client |-> TRUE, cfg |-> "ok",
                           jobs |-> <<[configured |-> TRUE, policy |-> policy]>>]>>
       /\ job_builds \in SeqUpTo(BuildKinds, MaxBuilds)
    \/ /\ is_forced_push \in BOOLEAN
       /\ \E jobs \in SeqUpTo(JobKinds, NumJobs) :
            pipelines = <<[client |-> TRUE, cfg |-> "ok", jobs |-> jobs]>>
       /\ job_builds \in DefaultBuilds
    \/ /\ is_forced_push \in BOOLEAN
       /\ pipelines \in SeqUpTo(PipelineKinds({<<>>, <<AlwaysJob>>}), NumPipelines)
       /\ job_builds \in DefaultBuilds

AbortInit ==
    /\ AbortInputs
    /\ ab_pc = "pipelines"
    /\ pipeline_idx = 0
    /\ job_idx = 0
    /\ handled = {}
    /\ aborted = {}

\* no push event is being processed
AbortIdle ==
    /\ ab_pc = "idle"
    /\ is_forced_push = FALSE
    /\ pipelines = <<>>
    /\ job_builds = <<>>
    /\ pipeline_idx = 0
    /\ job_idx = 0
    /\ handled = {}
    /\ aborted = {}

\* no webhook request is being handled
WhdIdle ==
    /\ http_pc = "idle"
    /\ http_exc = FALSE
    /\ event = "none"
    /\ pr_action = "None"
    /\ ref_type = "None"
    /\ modified_paths = {}
    /\ skip_ci = FALSE
    /\ git_resources = <<>>
    /\ resp_text = "None"
    /\ thread_target = "none"
    /\ th_pc = "none"
    /\ update_run = <<>>
    /\ client_idx = 0
    /\ call_log = <<>>
    /\ checked_resources = {}
    /\ label_ops = FALSE

\* no composite lookup is running
CompIdle ==
    /\ lk_pc = "idle"
    /\ lookups = <<>>
    /\ ctx_repo = "None"
    /\ absent_ok = TRUE
    /\ has_repository_ctx = TRUE
    /\ layer_idx = 0
    /\ writebacks = <<>>
    /\ wb_calls = <<>>
    /\ lk_ret = "none"
    /\ lk_exc = "None"

\* no lookup of a single layer is running
LayerIdle ==
    /\ ly_pc = "idle"
    /\ layer = "none"
    /\ ocm_repositories = <<>>
    /\ stored = {}
    /\ layer_absent_ok = TRUE
    /\ tried = <<>>
    /\ ly_res = [kind |-> "none", repo |-> 0]

\* the filesystem cache is not in use
FsIdle ==
    /\ same_filesystem = TRUE
    /\ w_pc = <<>>
    /\ tmp_dir = <<>>
    /\ tmp_file = <<>>
    /\ cache_file = "absent"
    /\ rd_pc = "idle"
    /\ observed = "none"

\* no OCI artifact is being replicated
OciIdle ==
    /\ oci_pc = "idle"
    /\ oci_mode = "registry_defaults"
    /\ src_kind = "v2"
    /\ cfg_in_source = TRUE
    /\ client_passed = TRUE
    /\ platform_filter = "None"
    /\ platforms = <<>>
    /\ holds_annotations = {}
    /\ annotations = "None"
    /\ tgt_blobs = {}
    /\ runs = 0
    /\ head_calls = {}
    /\ get_calls = {}
    /\ put_calls = {}
    /\ sub_manifests = {}
    /\ top_manifest = [content |-> "none", form |-> "none"]
    /\ manifest_list = <<>>
    /\ put_manifests = {}
    /\ oci_exc = "None"

CnudieIdle == CompIdle /\ LayerIdle /\ FsIdle

\* no composite lookup over an in-memory cache exists
CacheIdle ==
    /\ cache = {}
    /\ lookup_ctx_repo = 0
    /\ descriptor_ctx_repo = 0
    /\ evicted = {}
    /\ lookup_log = <<>>

\* no ReplicationResultProcessor is constructed
PassIdle ==
    /\ processor = [constructed |-> FALSE, remove_arg |-> TRUE,
                    cleanup_policy |-> "None", remove_pipelines |-> TRUE]
    /\ pass_log = <<>>

\* no iteration over component references is running
IterIdle ==
    /\ it_pc = "idle"
    /\ it_fn = "iter"
    /\ references = <<>>
    /\ prune_unique = TRUE
    /\ frames = <<>>
    /\ seen_component_ids = {}
    /\ yielded = {}
    /\ lookup_count = <<>>

InitRepl == ReplInit /\ PRIdle /\ EvtIdle /\ AbortIdle /\ WhdIdle /\ CnudieIdle
              /\ OciIdle /\ IterIdle /\ PassIdle /\ CacheIdle

InitPR == PRInit /\ ReplIdle /\ EvtIdle /\ AbortIdle /\ WhdIdle /\ CnudieIdle
              /\ OciIdle /\ IterIdle /\ PassIdle /\ CacheIdle

InitEvt == EvtInit /\ ReplIdle /\ AbortIdle /\ WhdIdle /\ CnudieIdle
              /\ OciIdle /\ IterIdle /\ PassIdle /\ CacheIdle

InitAbort == AbortInit /\ ReplIdle /\ PRIdle /\ EvtIdle /\ WhdIdle /\ CnudieIdle
              /\ OciIdle /\ IterIdle /\ PassIdle /\ CacheIdle

NextRepl ==
    \/ \E d \in Descs : Start(d)
    \/ \E d \in Descs : RenderSetup(d)
    \/ \E d \in Descs : AcquireTemplateLock(d)
    \/ \E d \in Descs : CompileTemplate(d)
    \/ \E d \in Descs : ExitRender(d)
    \/ \E d \in Descs : NamesLockAcquire(d)
    \/ \E d \in Descs : NamesTest(d)
    \/ \E d \in Descs : NamesAdd(d)
    \/ \E d \in Descs : Deploy(d)
    \/ \E d \in Descs : DeployRetry(d)
    \/ Collect
    \/ ProcessBegin
    \/ ProcessTarget
    \/ ProcessEnd

NextPR == EnsureCall

SpecRepl == InitRepl /\ [][NextRepl]_vars

SpecPR == InitPR /\ [][NextPR]_vars

NextEvt ==
    \/ ProcessPrEventBegin
    \/ ProcessBatch
    \/ ProcessPrEventEnd

SpecEvt == InitEvt /\ [][NextEvt]_vars

NextAbort ==
    \/ AbortPipeline
    \/ AbortJob
    \/ AbortJobsDone
    \/ AbortEnd

SpecAbort == InitAbort /\ [][NextAbort]_vars

(***************************************************************************)
(* GithubWebhook.on_post, the dispatcher and the handler threads           *)
(* (whd/webhook.py, whd/dispatcher.py)                                     *)
(***************************************************************************)
\* values of the X-GitHub-Event header
EventTypes == {"push", "create", "pull_request", "ping", "issues"}

\* whd.model.PullRequestAction
PullRequestActions ==
    {"OPENED", "REOPENED", "LABELED", "SYNCHRONIZE", "CLOSED", "EDITED"}

\* whd.model.RefType
RefTypes == {"BRANCH", "TAG"}

\* paths a push can modify
Paths == {".ci/pipeline_definitions", "README.md"}

\* a git resource of a pipeline, as _matching_resources looks at it: its
\* github_source() has the hostname of the event's repository, the path of
\* the repository, a branch name the event's ref ends with, and
\* disable_ci_skip set
GitMatch == [name |-> "g1", host |-> TRUE, path |-> TRUE, branch |-> TRUE,
             disable_ci_skip |-> FALSE]

GitNoSkip == [name |-> "g2", host |-> TRUE, path |-> TRUE, branch |-> TRUE,
              disable_ci_skip |-> TRUE]

GitOtherBranch == [name |-> "g3", host |-> TRUE, path |-> TRUE,
                   branch |-> FALSE, disable_ci_skip |-> FALSE]

GitOtherRepo == [name |-> "g4", host |-> TRUE, path |-> FALSE,
                 branch |-> TRUE, disable_ci_skip |-> TRUE]

GitOtherHost == [name |-> "g5", host |-> FALSE, path |-> TRUE,
                 branch |-> TRUE, disable_ci_skip |-> FALSE]

\* what concourse_api.pipeline_resources(..., resource_type=GIT) yields
GitResourceSets ==
    {{}, {GitMatch}, {GitMatch, GitNoSkip, GitOtherBranch},
     {GitOtherRepo, GitOtherHost}}

\* _matching_resources for a push event
matching_resources(resources) ==
    {r \in resources :
       /\ r.host
       /\ r.path
       /\ r.branch
       /\ ~(skip_ci /\ ~r.disable_ci_skip)}

_pipeline_definition_changed == ".ci/pipeline_definitions" \in modified_paths

\* how a call of _do_update can end
NotFoundErrors == {"JobMappingNotFoundError", "ConfigElementNotFoundError"}

DoUpdateOutcomes == {"ok", "ValueError", "HTTPError"} \cup NotFoundErrors

\* the reload of the configuration in the except clause: retrieve_secrets,
\* ConfigFactory.from_dict and cfg_set all return, or one of them raises
ReloadOutcomes == {"reloaded", "ReloadError"}

\* _update_pipeline_definition, given how its first _do_update, the reload
\* and the second _do_update end if they are reached: the steps it takes
_update_pipeline_definition_RetryAny(first, reload, second) ==
    IF first = "ok" THEN <<first>>
    ELSE IF reload # "reloaded" THEN <<first, reload>>
    ELSE <<first, reload, second>>

_update_pipeline_definition(first, reload, second) ==
    IF first \notin NotFoundErrors THEN <<first>>
    ELSE IF reload # "reloaded" THEN <<first, reload>>
    ELSE <<first, reload, second>>

\* the runs of _update_pipeline_definition
UpdateRuns ==
    {_update_pipeline_definition(first, reload, second) :
        first \in DoUpdateOutcomes, reload \in ReloadOutcomes,
        second \in DoUpdateOutcomes}

\* the exception that leaves _update_pipeline_definition ("ok": none)
UpdateResult(run) == run[Len(run)]

\* `except ValueError` of process_push_event: ValueError is caught, HTTPError
\* is not; the two NotFoundErrors and the errors of the reload are defined
\* outside the modelled files, so both outcomes are explored for them
CaughtChoices(exc) ==
    IF exc = "ValueError" THEN {TRUE}
    ELSE IF exc \in NotFoundErrors \cup {"ReloadError"} THEN BOOLEAN
    ELSE {FALSE}

\* dispatch_pullrequest_event: TRUE iff the event will be processed
dispatch_pullrequest_event_NoReopened(a) ==
    a \in {"OPENED", "LABELED", "SYNCHRONIZE"}

dispatch_pullrequest_event(a) ==
    a \in {"OPENED", "REOPENED", "LABELED", "SYNCHRONIZE"}

\* dispatch_create_event: is a thread started
dispatch_create_event(rt) == rt = "BRANCH"

\* an exception that ends a handler thread: threading.Thread reports it on
\* the thread itself; the state of the HTTP layer stays what it is
UncaughtInThread_Propagates(exc) == TRUE

UncaughtInThread(exc) == exc

CallRec(call, client) == [call |-> call, client |-> client]

\* on_post up to its return: the dispatch_..._event call and the thread start
OnPost ==
    /\ http_pc = "recv"
    /\ http_pc' = "returned"
    /\ LET target ==
             IF event = "push" THEN "process_push_event"
             ELSE IF event = "create" /\ dispatch_create_event(ref_type)
               THEN "_update_pipeline_definition"
             ELSE IF event = "pull_request"
                     /\ dispatch_pullrequest_event(pr_action)
               THEN "process_pr_event"
             ELSE "none"
       IN /\ thread_target' = target
          /\ th_pc' = IF target = "none" THEN "none" ELSE "start"
    /\ resp_text' =
         IF event = "pull_request" /\ ~dispatch_pullrequest_event(pr_action)
         THEN "Event ignored" ELSE resp_text
    /\ UNCHANGED <<http_exc, whdInputs, update_run, client_idx, call_log,
                   checked_resources, label_ops, abortVars, nonWhdVars>>

\* process_push_event: `if self._pipeline_definition_changed(event)` with
\* the try/except around _update_pipeline_definition
PushUpdate ==
    /\ thread_target = "process_push_event"
    /\ th_pc = "start"
    /\ IF _pipeline_definition_changed
       THEN \E run \in UpdateRuns :
              \E caught \in CaughtChoices(UpdateResult(run)) :
                /\ update_run' = run
                /\ call_log' = Append(call_log, CallRec("update", 0))
                /\ IF UpdateResult(run) = "ok" \/ caught
                   THEN /\ th_pc' = "abort"
                        /\ http_exc' = http_exc
                   ELSE /\ th_pc' = "raised"
                        /\ http_exc' = UncaughtInThread(http_exc)
       ELSE /\ th_pc' = "abort"
            /\ UNCHANGED <<update_run, call_log, http_exc>>
    /\ UNCHANGED <<http_pc, resp_text, whdInputs, thread_target, client_idx,
                   checked_resources, label_ops, abortVars, nonWhdVars>>

\* process_push_event calls abort_running_jobs_if_configured
PushAbortCall ==
    /\ thread_target = "process_push_event"
    /\ th_pc = "abort"
    /\ ab_pc = "idle"
    /\ ab_pc' = "pipelines"
    /\ th_pc' = "aborting"
    /\ call_log' = Append(call_log, CallRec("abort", 0))
    /\ UNCHANGED <<httpVars, whdInputs, thread_target, update_run, client_idx,
                   checked_resources, label_ops, abortInputs, pipeline_idx,
                   job_idx, handled, aborted, nonWhdVars>>

\* abort_running_jobs_if_configured returns or raises
PushAbortReturn ==
    /\ th_pc = "aborting"
    /\ ab_pc \in {"returned", "raised"}
    /\ IF ab_pc = "returned"
       THEN /\ th_pc' = "checks"
            /\ http_exc' = http_exc
       ELSE /\ th_pc' = "raised"
            /\ http_exc' = UncaughtInThread(http_exc)
    /\ UNCHANGED <<http_pc, resp_text, whdInputs, thread_target, update_run,
                   client_idx, call_log, checked_resources, label_ops,
                   abortVars, nonWhdVars>>

\* one iteration of `for concourse_api in self.concourse_clients()`
PushCheck ==
    /\ th_pc = "checks"
    /\ client_idx < Len(git_resources)
    /\ LET c == client_idx + 1
       IN /\ client_idx' = c
          /\ call_log' = Append(call_log, CallRec("check", c))
          /\ checked_resources' =
               checked_resources \cup
                 {<<c, r.name>> : r \in matching_resources(git_resources[c])}
    /\ UNCHANGED <<httpVars, whdInputs, thread_target, th_pc, update_run,
                   label_ops, abortVars, nonWhdVars>>

\* the clients are exhausted: process_push_event returns
PushDone ==
    /\ th_pc = "checks"
    /\ client_idx = Len(git_resources)
    /\ th_pc' = "done"
    /\ UNCHANGED <<httpVars, whdInputs, thread_target, update_run, client_idx,
                   call_log, checked_resources, label_ops, abortVars,
                   nonWhdVars>>

\* the thread of a create event runs _update_pipeline_definition
CreateHandler ==
    /\ thread_target = "_update_pipeline_definition"
    /\ th_pc = "start"
    /\ \E run \in UpdateRuns :
         /\ update_run' = run
         /\ IF UpdateResult(run) = "ok"
            THEN /\ th_pc' = "done"
                 /\ http_exc' = http_exc
            ELSE /\ th_pc' = "raised"
                 /\ http_exc' = UncaughtInThread(http_exc)
    /\ UNCHANGED <<http_pc, resp_text, whdInputs, thread_target, client_idx,
                   call_log, checked_resources, label_ops, abortVars,
                   nonWhdVars>>

\* the thread of a pull_request event runs process_pr_event, which returns
\* or raises, and may have changed the labels of the pull request
PrHandler ==
    /\ thread_target = "process_pr_event"
    /\ th_pc = "start"
    /\ label_ops' \in BOOLEAN
    /\ \E raised \in BOOLEAN :
         IF raised
         THEN /\ th_pc' = "raised"
              /\ http_exc' = UncaughtInThread(http_exc)
         ELSE /\ th_pc' = "done"
              /\ http_exc' = http_exc
    /\ UNCHANGED <<http_pc, resp_text, whdInputs, thread_target, update_run,
                   client_idx, call_log, checked_resources, abortVars,
                   nonWhdVars>>

\* git resources of the clients when the run varies something else
DefaultGitResources ==
    [c \in 1..NumClients |->
       IF c = 1 THEN {GitMatch, GitOtherBranch} ELSE {GitNoSkip}]

\* the abort configuration when the run varies something else: no affected
\* pipeline
NoAbortInputs ==
    /\ is_forced_push = FALSE
    /\ pipelines = <<>>
    /\ job_builds = <<>>

\* The requests on_post is called with:
\*   - pushes with every set of modified paths and every assignment of git
\*     resources to the clients,
\*   - pushes with one affected pipeline of every kind, forced or not,
\*   - create events, pull_request events, and other events.
WhdInputs ==
    \/ /\ event = "push"
       /\ modified_paths \in SUBSET Paths
       /\ skip_ci \in BOOLEAN
       /\ git_resources \in [1..NumClients -> GitResourceSets]
       /\ NoAbortInputs
       /\ pr_action = "None" /\ ref_type = "None"
    \/ /\ event = "push"
       /\ modified_paths \in {{}, Paths}
       /\ skip_ci = FALSE
       /\ git_resources = DefaultGitResources
       /\ is_forced_push \in BOOLEAN
       /\ \E p \in PipelineKinds({<<j>> : j \in JobKinds}) : pipelines = <<p>>
       /\ job_builds \in DefaultBuilds
       /\ pr_action = "None" /\ ref_type = "None"
    \/ /\ event = "create"
       /\ ref_type \in RefTypes
       /\ pr_action = "None"
       /\ modified_paths = {} /\ skip_ci = FALSE
       /\ git_resources = DefaultGitResources
       /\ NoAbortInputs
    \/ /\ event = "pull_request"
       /\ pr_action \in PullRequestActions
       /\ ref_type = "None"
       /\ modified_paths = {} /\ skip_ci = FALSE
       /\ git_resources = DefaultGitResources
       /\ NoAbortInputs
    \/ /\ event \in EventTypes \ {"push", "create", "pull_request"}
       /\ pr_action = "None" /\ ref_type = "None"
       /\ modified_paths = {} /\ skip_ci = FALSE
       /\ git_resources = DefaultGitResources
       /\ NoAbortInputs

WhdInit ==
    /\ WhdInputs
    /\ http_pc = "recv"
    /\ http_exc = FALSE
    /\ resp_text = "None"
    /\ thread_target = "none"
    /\ th_pc = "none"
    /\ update_run = <<>>
    /\ client_idx = 0
    /\ call_log = <<>>
    /\ checked_resources = {}
    /\ label_ops = FALSE
    /\ ab_pc = "idle"
    /\ pipeline_idx = 0
    /\ job_idx = 0
    /\ handled = {}
    /\ aborted = {}

InitWhd == WhdInit /\ ReplIdle /\ PRIdle /\ EvtIdle /\ CnudieIdle /\ OciIdle /\ IterIdle /\ PassIdle /\ CacheIdle

NextWhd ==
    \/ OnPost
    \/ PushUpdate
    \/ PushAbortCall
    \/ AbortPipeline
    \/ AbortJob
    \/ AbortJobsDone
    \/ AbortEnd
    \/ PushAbortReturn
    \/ PushCheck
    \/ PushDone
    \/ CreateHandler
    \/ PrHandler

SpecWhd == InitWhd /\ [][NextWhd]_vars

(***************************************************************************)
(* composite_component_descriptor_lookup (cnudie/retrieve.py)              *)
(***************************************************************************)
\* upper bound of the number of layers of a composite lookup
MaxLayers == 3

\* what the lookup of a layer does when the composite calls it: it returns a
\* ComponentDescriptor, None or its WriteBack, or it raises
\* om.OciImageNotFoundException or another exception (the ValueError of a
\* lookup called without ctx_repo, an error of the network)
LayerOutcomes ==
    {"ComponentDescriptor", "None", "WriteBack", "OciImageNotFoundException",
     "ValueError"}

\* the ctx_repo argument: None, a url, a cm.OciRepositoryContext
CtxRepoKinds == {"None", "str", "OciRepositoryContext"}

\* `try: res = lookup(...) except om.OciImageNotFoundException: pass`:
\* the value of res, or "raise" for an exception the except clause lets pass
LayerResult_CatchAll(outcome) ==
    IF outcome \in {"OciImageNotFoundException", "ValueError"} THEN "None"
    ELSE outcome

LayerResult(outcome) ==
    IF outcome = "OciImageNotFoundException" THEN "None"
    ELSE IF outcome = "ValueError" THEN "raise"
    ELSE outcome

\* `for wb in writebacks: wb(component_id, res)`: the write-backs of the
\* cache layers raise ValueError for a descriptor without
\* current_repository_ctx(), which ends the loop at its first call
InvokedWriteBacks(wbs) ==
    IF has_repository_ctx \/ wbs = <<>> THEN wbs ELSE <<wbs[1]>>

\* the exception at the end of the lookup, absent_ok being false:
\* ctx_repo.component_version_oci_ref(component_id) is evaluated for the
\* argument of OciImageNotFoundException, a str having been converted to an
\* OciRepositoryContext before
NotFoundException ==
    IF ctx_repo = "None" THEN "AttributeError"
    ELSE "OciImageNotFoundException"

\* one iteration of `for lookup in lookups`
CompositeLayer ==
    /\ lk_pc = "loop"
    /\ layer_idx < Len(lookups)
    /\ LET i   == layer_idx + 1
           res == LayerResult(lookups[i])
       IN /\ layer_idx' = i
          /\ IF res = "raise"
             THEN /\ lk_pc' = "raised"
                  /\ lk_exc' = lookups[i]
                  /\ UNCHANGED <<writebacks, wb_calls, lk_ret>>
             ELSE IF res = "ComponentDescriptor"
             THEN /\ wb_calls' = InvokedWriteBacks(writebacks)
                  /\ IF has_repository_ctx \/ writebacks = <<>>
                     THEN /\ lk_pc' = "returned"
                          /\ lk_ret' = "ComponentDescriptor"
                          /\ lk_exc' = lk_exc
                     ELSE /\ lk_pc' = "raised"
                          /\ lk_exc' = "ValueError"
                          /\ lk_ret' = lk_ret
                  /\ UNCHANGED writebacks
             ELSE /\ writebacks' = IF res = "WriteBack"
                                   THEN Append(writebacks, i) ELSE writebacks
                  /\ UNCHANGED <<lk_pc, wb_calls, lk_ret, lk_exc>>
    /\ UNCHANGED <<compInputs, nonCompVars>>

\* the layers are exhausted: `if absent_ok: return`, else the exception
CompositeMiss ==
    /\ lk_pc = "loop"
    /\ layer_idx = Len(lookups)
    /\ IF absent_ok
       THEN /\ lk_pc' = "returned"
            /\ lk_ret' = "None"
            /\ lk_exc' = lk_exc
       ELSE /\ lk_pc' = "raised"
            /\ lk_exc' = NotFoundException
            /\ lk_ret' = lk_ret
    /\ UNCHANGED <<compInputs, layer_idx, writebacks, wb_calls, nonCompVars>>

\* every composite of up to MaxLayers layers, every kind of ctx_repo
CompInit ==
    /\ lookups \in SeqUpTo(LayerOutcomes, MaxLayers)
    /\ ctx_repo \in CtxRepoKinds
    /\ absent_ok \in BOOLEAN
    /\ has_repository_ctx \in BOOLEAN
    /\ lk_pc = "loop"
    /\ layer_idx = 0
    /\ writebacks = <<>>
    /\ wb_calls = <<>>
    /\ lk_ret = "none"
    /\ lk_exc = "None"

InitComp ==
    /\ CompInit /\ LayerIdle /\ FsIdle
    /\ ReplIdle /\ PRIdle /\ EvtIdle /\ AbortIdle /\ WhdIdle /\ OciIdle /\ IterIdle /\ PassIdle /\ CacheIdle

NextComp == CompositeLayer \/ CompositeMiss

SpecComp == InitComp /\ [][NextComp]_vars

(***************************************************************************)
(* The lookups of the single layers, called with a mapping config          *)
(* (cnudie/retrieve.py)                                                    *)
(***************************************************************************)
\* number of ocm repositories a mapping config can name for a component
MaxRepos == 3

Repos == 1..MaxRepos

\* the four lookups create_default_component_descriptor_lookup combines
LayerKinds == {"in_memory", "file_system", "delivery_service", "oci"}

\* what mapping_config.iter_ocm_repositories can yield: the sequences of
\* distinct repositories
RepoLists ==
    {s \in SeqUpTo(Repos, MaxRepos) :
       \A i, j \in 1..Len(s) : i # j => s[i] # s[j]}

\* index of the first element of s the backend holds the descriptor under
\* (0: none)
FirstStored(s) ==
    IF \E k \in 1..Len(s) : s[k] \in stored
    THEN CHOOSE k \in 1..Len(s) :
           /\ s[k] \in stored
           /\ \A m \in 1..(k - 1) : s[m] \notin stored
    ELSE 0

LayerRes(kind, repo) == [kind |-> kind, repo |-> repo]

\* the loop `for ctx_repo in mapping_config.iter_ocm_repositories(...)` that
\* leaves at the first repository with a result: the repositories asked
TriedUntilFound(s) ==
    IF FirstStored(s) = 0 THEN s ELSE SubSeq(s, 1, FirstStored(s))

\* the result of that loop, `miss` being what the lookup does without result
FoundOr(s, miss) ==
    IF FirstStored(s) = 0 THEN LayerRes(miss, 0)
    ELSE LayerRes("ComponentDescriptor", s[FirstStored(s)])

\* `if absent_ok: return None` / `raise om.OciImageNotFoundException`
AbsentResult == IF layer_absent_ok THEN "None" ELSE "OciImageNotFoundException"

LayerEnds(res) ==
    /\ ly_res' = res
    /\ ly_pc' = IF res.kind \in {"OciImageNotFoundException",
                                 "NotImplementedError"}
                THEN "raised" ELSE "returned"

\* in_memory_cache_component_descriptor_lookup.lookup, mapping_config given
InMemoryLookup ==
    /\ ly_pc = "call"
    /\ layer = "in_memory"
    /\ tried' = TriedUntilFound(ocm_repositories)
    /\ LayerEnds(FoundOr(ocm_repositories, "WriteBack"))
    /\ UNCHANGED <<layerInputs, nonLayerVars>>

\* file_system_cache_component_descriptor_lookup.lookup, mapping_config
\* given: the loop over the repositories is left in its first iteration
FileSystemLookup ==
    /\ ly_pc = "call"
    /\ layer = "file_system"
    /\ IF ocm_repositories = <<>>
       THEN /\ tried' = <<>>
            /\ LayerEnds(LayerRes("NotImplementedError", 0))
       ELSE /\ tried' = <<ocm_repositories[1]>>
            /\ LayerEnds(FoundOr(<<ocm_repositories[1]>>, "WriteBack"))
    /\ UNCHANGED <<layerInputs, nonLayerVars>>

\* delivery_service_component_descriptor_lookup.lookup, mapping_config given
DeliveryServiceLookup ==
    /\ ly_pc = "call"
    /\ layer = "delivery_service"
    /\ tried' = TriedUntilFound(ocm_repositories)
    /\ LayerEnds(FoundOr(ocm_repositories, AbsentResult))
    /\ UNCHANGED <<layerInputs, nonLayerVars>>

\* oci_component_descriptor_lookup.lookup, mapping_config given
OciLookup ==
    /\ ly_pc = "call"
    /\ layer = "oci"
    /\ tried' = TriedUntilFound(ocm_repositories)
    /\ LayerEnds(FoundOr(ocm_repositories, AbsentResult))
    /\ UNCHANGED <<layerInputs, nonLayerVars>>

\* every layer, every mapping, every set of repositories holding the
\* descriptor
LayerInit ==
    /\ layer \in LayerKinds
    /\ ocm_repositories \in RepoLists
    /\ stored \in SUBSET Repos
    /\ layer_absent_ok \in BOOLEAN
    /\ ly_pc = "call"
    /\ tried = <<>>
    /\ ly_res = LayerRes("none", 0)

InitLayer ==
    /\ LayerInit /\ CompIdle /\ FsIdle
    /\ ReplIdle /\ PRIdle /\ EvtIdle /\ AbortIdle /\ WhdIdle /\ OciIdle /\ IterIdle /\ PassIdle /\ CacheIdle

NextLayer ==
    \/ InMemoryLookup
    \/ FileSystemLookup
    \/ DeliveryServiceLookup
    \/ OciLookup

SpecLayer == InitLayer /\ [][NextLayer]_vars

(***************************************************************************)
(* The filesystem cache: concurrent write-backs and a lookup of one        *)
(* descriptor path (cnudie/retrieve.py)                                    *)
(***************************************************************************)
\* number of threads or processes writing back the same descriptor
NumWriters == 2

Writers == 1..NumWriters

\* `tempfile.NamedTemporaryFile(mode='w', delete=False)`: no dir argument,
\* the file is created in the default temp dir
TempDir == "tempfile.gettempdir()"

\* writeback: the temp file is created
CreateTempFile(w) ==
    /\ w_pc[w] = "start"
    /\ w_pc' = [w_pc EXCEPT ![w] = "dump"]
    /\ tmp_dir' = [tmp_dir EXCEPT ![w] = TempDir]
    /\ tmp_file' = [tmp_file EXCEPT ![w] = "empty"]
    /\ UNCHANGED <<same_filesystem, cache_file, rd_pc, observed, nonFsVars>>

\* writeback: yaml.dump into the temp file, f.close()
DumpDescriptor(w) ==
    /\ w_pc[w] = "dump"
    /\ w_pc' = [w_pc EXCEPT ![w] = "move"]
    /\ tmp_file' = [tmp_file EXCEPT ![w] = "complete"]
    /\ UNCHANGED <<same_filesystem, tmp_dir, cache_file, rd_pc, observed,
                   nonFsVars>>

\* shutil.move(f.name, descriptor_path) within one file system: os.rename
MoveRename(w) ==
    /\ w_pc[w] = "move"
    /\ same_filesystem
    /\ w_pc' = [w_pc EXCEPT ![w] = "done"]
    /\ cache_file' = tmp_file[w]
    /\ tmp_file' = [tmp_file EXCEPT ![w] = "moved"]
    /\ UNCHANGED <<same_filesystem, tmp_dir, rd_pc, observed, nonFsVars>>

\* shutil.move across file systems: os.rename fails and the file is copied;
\* the copy opens descriptor_path for writing, which creates or truncates it
MoveCopyOpen(w) ==
    /\ w_pc[w] = "move"
    /\ ~same_filesystem
    /\ w_pc' = [w_pc EXCEPT ![w] = "copying"]
    /\ cache_file' = "partial"
    /\ UNCHANGED <<same_filesystem, tmp_dir, tmp_file, rd_pc, observed,
                   nonFsVars>>

\* shutil.move across file systems: the copy has written the content and the
\* temp file is removed; the file is complete unless another copy into it
\* is under way
MoveCopyDone(w) ==
    /\ w_pc[w] = "copying"
    /\ w_pc' = [w_pc EXCEPT ![w] = "done"]
    /\ cache_file' =
         IF \E o \in Writers \ {w} : w_pc[o] = "copying"
         THEN "partial" ELSE "complete"
    /\ tmp_file' = [tmp_file EXCEPT ![w] = "moved"]
    /\ UNCHANGED <<same_filesystem, tmp_dir, rd_pc, observed, nonFsVars>>

\* lookup: `if descriptor_path and os.path.isfile(descriptor_path)`
LookupIsFile ==
    /\ rd_pc = "start"
    /\ IF cache_file = "absent"
       THEN /\ rd_pc' = "returned"
            /\ observed' = "no file"
       ELSE /\ rd_pc' = "parse"
            /\ observed' = observed
    /\ UNCHANGED <<same_filesystem, w_pc, tmp_dir, tmp_file, cache_file,
                   nonFsVars>>

\* lookup: ci.util.parse_yaml_file(descriptor_path) reads what the file holds
LookupParse ==
    /\ rd_pc = "parse"
    /\ rd_pc' = "returned"
    /\ observed' = cache_file
    /\ UNCHANGED <<same_filesystem, w_pc, tmp_dir, tmp_file, cache_file,
                   nonFsVars>>

\* an empty cache, NumWriters write-backs and one lookup about to start; the
\* cache dir may or may not be on the file system of the temp dir
FsInit ==
    /\ same_filesystem \in BOOLEAN
    /\ w_pc = [w \in Writers |-> "start"]
    /\ tmp_dir = [w \in Writers |-> "none"]
    /\ tmp_file = [w \in Writers |-> "none"]
    /\ cache_file = "absent"
    /\ rd_pc = "start"
    /\ observed = "none"

InitFs ==
    /\ FsInit /\ CompIdle /\ LayerIdle
    /\ ReplIdle /\ PRIdle /\ EvtIdle /\ AbortIdle /\ WhdIdle /\ OciIdle /\ IterIdle /\ PassIdle /\ CacheIdle

NextFs ==
    \/ \E w \in Writers : CreateTempFile(w)
    \/ \E w \in Writers : DumpDescriptor(w)
    \/ \E w \in Writers : MoveRename(w)
    \/ \E w \in Writers : MoveCopyOpen(w)
    \/ \E w \in Writers : MoveCopyDone(w)
    \/ LookupIsFile
    \/ LookupParse

SpecFs == InitFs /\ [][NextFs]_vars

(***************************************************************************)
(* oci.replicate_artifact (oci/__init__.py)                                *)
(***************************************************************************)
\* number of layers of an image, of sub-manifests of an image index, and of
\* calls of replicate_artifact for one artifact and target
NumLayers == 2

NumSubs == 3

MaxRuns == 2

\* ReplicationMode
ReplicationModes == {"registry_defaults", "prefer_multiarch",
                     "normalise_to_multiarch"}

\* the manifest the source registry returns: schemaVersion 1, schemaVersion 2
\* with a single-image media type, schemaVersion 2 with a manifest-list or
\* image-index media type
SourceKinds == {"v1", "v2", "index"}

\* the images: 0 is the single image, 1..NumSubs the images of an index
SubImages == 1..NumSubs

\* blobs: <<image, 0>> is the config blob of the image, <<image, k>> its
\* k-th layer, <<image, -1>> the config blob synthesised for a v1 image
CfgBlob(img) == <<img, 0>>

LayerBlobs(img) == {<<img, k>> : k \in 1..NumLayers}

SynthCfgBlob(img) == <<img, -1>>

\* the config the manifest converted by v1_manifest_to_v2 references, before
\* the digest of the synthesised blob is patched in ("altered cfg-digest")
ConvertedCfgBlob(img) == <<img, -2>>

\* the platform of a sub-manifest, and platform_filter applied to it
Platforms == {"linux/amd64", "linux/arm64"}

Platform(s) == platforms[s]

PassesFilter(s) == platform_filter = "None" \/ Platform(s) = "linux/amd64"

\* manifest bytes: the content, and whether the bytes are the ones fetched
\* from the source or the output of json.dumps(manifest.as_dict())
ManifestBytes(content, form) == [content |-> content, form |-> form]

SourceBytes == ManifestBytes("source", "source")

\* `head_res.ok` of client.head_blob for the target
HeadOk_Never(T, blob) == FALSE

HeadOk(T, blob) == blob \in T

\* the loop over the annotations sets manifest_dirty iff a value is new or
\* different
AnnotationsDirty_Always == TRUE

AnnotationsDirty == annotations = "new"

\* The blob loop, the synthesis of the config blob, the annotations and the
\* bytes handed to put_manifest, for a single image (lines 306-424), the
\* target holding the blobs T. schema 1: the manifest was converted by
\* v1_manifest_to_v2, need_to_synthesise_cfg_blob and
\* need_uncompressed_layer_digests are set.
SingleImage(T, img, schema) ==
    LET cfgHead   == schema = 2
        cfgGet    == schema = 2 /\ ~HeadOk(T, CfgBlob(img))
        cfgPut    == cfgGet /\ cfg_in_source
        synthesise == schema = 1 \/ (cfgGet /\ ~cfg_in_source)
        layerGets == {l \in LayerBlobs(img) : ~HeadOk(T, l) \/ schema = 1}
        layerPuts == {l \in LayerBlobs(img) : ~HeadOk(T, l)}
        \* json.loads(raw_manifest)['history'] of a v2 manifest
        keyError  == synthesise /\ schema = 2
        dirty     == AnnotationsDirty /\ img \notin holds_annotations
    IN [raised |-> keyError,
        \* manifest_dict is patched with the digest and the size of the
        \* synthesised blob; manifest.as_dict() of the annotations branch is
        \* a new dict of the manifest, which is not patched
        config |-> IF schema = 2 THEN CfgBlob(img)
                   ELSE IF dirty THEN ConvertedCfgBlob(img)
                   ELSE SynthCfgBlob(img),
        heads  |-> LayerBlobs(img)
                     \cup (IF cfgHead THEN {CfgBlob(img)} ELSE {}),
        gets   |-> layerGets \cup (IF cfgGet THEN {CfgBlob(img)} ELSE {}),
        puts   |-> layerPuts
                     \cup (IF cfgPut THEN {CfgBlob(img)} ELSE {})
                     \cup (IF synthesise /\ schema = 1
                           THEN {SynthCfgBlob(img)} ELSE {}),
        bytes  |-> IF dirty THEN ManifestBytes("annotated", "json.dumps")
                   ELSE IF schema = 1
                     THEN ManifestBytes("converted", "json.dumps")
                   ELSE SourceBytes]

\* an entry of a manifest list: the sub-image, and the digest and the size
\* as the manifest bytes they are the digest and the size of
ListEntry(s, bytes) == [sub |-> s, digest |-> bytes]

\* manifest.manifests of the source
SourceManifests == [s \in SubImages |-> ListEntry(s, SourceBytes)]

ListRemove_Keep(list, e) == list

\* list.remove(e): without the first element equal to e
ListRemove(list, e) ==
    LET i == CHOOSE i \in 1..Len(list) :
                 list[i] = e /\ \A j \in 1..(i - 1) : list[j] # e
    IN SubSeq(list, 1, i - 1) \o SubSeq(list, i + 1, Len(list))

\* list.insert(idx, e), idx counting from 0: an index behind the end appends
ListInsert(list, idx, e) ==
    LET k == IF idx < Len(list) THEN idx ELSE Len(list)
    IN SubSeq(list, 1, k) \o <<e>> \o SubSeq(list, k + 1, Len(list))

\* the loop over enumerate(tuple(manifest.manifests)) from the s-th entry
\* on (idx = s - 1): an entry the filter rejects is removed, an entry whose
\* replicated manifest has another digest is removed and its patched copy
\* inserted at idx; replicated[s] is the manifest the recursive call
\* returned for the s-th entry
RECURSIVE SubManifestLoop(_, _, _)
SubManifestLoop(list, s, replicated) ==
    IF s > NumSubs THEN list
    ELSE IF ~PassesFilter(s)
      THEN SubManifestLoop(ListRemove(list, SourceManifests[s]), s + 1,
                           replicated)
    ELSE IF replicated[s] # SourceManifests[s].digest
      THEN SubManifestLoop(
               ListInsert(ListRemove(list, SourceManifests[s]), s - 1,
                          ListEntry(s, replicated[s])),
               s + 1, replicated)
    ELSE SubManifestLoop(list, s + 1, replicated)

\* the sub-manifests the loop of the multi-arch branch replicates: those that
\* pass the filter, up to the first whose replication raises
ReplicatedSubs(T) ==
    LET kept    == {s \in SubImages : PassesFilter(s)}
        raising == {s \in kept : SingleImage(T, s, 2).raised}
    IN {s \in kept : \A r \in raising : s <= r}

\* one call of replicate_artifact with a manifest list or image index
ReplicateIndex ==
    /\ oci_pc = "call"
    /\ src_kind = "index"
    /\ LET subs    == ReplicatedSubs(tgt_blobs)
           res(s)  == SingleImage(tgt_blobs, s, 2)
           raised  == \E s \in subs : res(s).raised
           removed == \E s \in SubImages : ~PassesFilter(s)
           bytes(s) == res(s).bytes
           patched == \E s \in subs : bytes(s) # SourceBytes
           manifest_dirty == removed \/ patched \/ AnnotationsDirty
       IN /\ head_calls' = UNION {res(s).heads : s \in subs}
          /\ get_calls' = UNION {res(s).gets : s \in subs}
          /\ put_calls' = UNION {res(s).puts : s \in subs}
          /\ tgt_blobs' = tgt_blobs \cup put_calls'
          /\ sub_manifests' = {s \in subs : ~res(s).raised}
          /\ put_manifests' =
                {[img |-> s, bytes |-> bytes(s), config |-> res(s).config] :
                   s \in sub_manifests'}
          /\ IF raised
             THEN /\ oci_pc' = "raised"
                  /\ oci_exc' = "KeyError"
                  /\ top_manifest' = top_manifest
                  /\ manifest_list' = manifest_list
             ELSE /\ oci_pc' = "returned"
                  /\ oci_exc' = oci_exc
                  /\ manifest_list' =
                       SubManifestLoop(SourceManifests, 1,
                                       [s \in SubImages |-> bytes(s)])
                  /\ top_manifest' =
                       IF manifest_dirty
                       THEN ManifestBytes(IF removed THEN "filtered"
                                          ELSE "annotated", "json.dumps")
                       ELSE SourceBytes
    /\ runs' = runs + 1
    /\ UNCHANGED <<ociInputs, nonOciVars>>

\* one call with a single-image v2 manifest in NORMALISE_TO_MULTIARCH mode:
\* the image is replicated under its digest, then a manifest list with one
\* entry is PUT. The branch uses the oci_client argument, which is None if
\* credentials_lookup was passed.
ReplicateNormalised ==
    /\ oci_pc = "call"
    /\ src_kind = "v2"
    /\ oci_mode = "normalise_to_multiarch"
    /\ LET res == SingleImage(tgt_blobs, 0, 2)
       IN IF ~client_passed
          THEN /\ oci_pc' = "raised"
               /\ oci_exc' \in {"AttributeError", "ValueError"}
               /\ head_calls' = {} /\ get_calls' = {} /\ put_calls' = {}
               /\ sub_manifests' = {}
               /\ put_manifests' = {}
               /\ UNCHANGED <<tgt_blobs, top_manifest, manifest_list>>
          ELSE /\ head_calls' = res.heads
               /\ get_calls' = res.gets
               /\ put_calls' = res.puts
               /\ tgt_blobs' = tgt_blobs \cup res.puts
               /\ IF res.raised
                  THEN /\ oci_pc' = "raised"
                       /\ oci_exc' = "KeyError"
                       /\ sub_manifests' = {}
                       /\ put_manifests' = {}
                       /\ top_manifest' = top_manifest
                       /\ manifest_list' = manifest_list
                  ELSE /\ oci_pc' = "returned"
                       /\ oci_exc' = oci_exc
                       /\ sub_manifests' = {0}
                       /\ put_manifests' =
                            {[img |-> 0, bytes |-> res.bytes,
                              config |-> res.config]}
                       /\ manifest_list' = <<ListEntry(0, res.bytes)>>
                       /\ top_manifest' =
                            ManifestBytes("manifest_list", "json.dumps")
    /\ runs' = runs + 1
    /\ UNCHANGED <<ociInputs, nonOciVars>>

\* one call with a v1 manifest, or with a single-image v2 manifest in the
\* two other modes
ReplicateSingle ==
    /\ oci_pc = "call"
    /\ \/ src_kind = "v1"
       \/ src_kind = "v2" /\ oci_mode # "normalise_to_multiarch"
    /\ LET res == SingleImage(tgt_blobs, 0, IF src_kind = "v1" THEN 1 ELSE 2)
       IN /\ head_calls' = res.heads
          /\ get_calls' = res.gets
          /\ put_calls' = res.puts
          /\ tgt_blobs' = tgt_blobs \cup res.puts
          /\ sub_manifests' = {}
          /\ manifest_list' = manifest_list
          /\ IF res.raised
             THEN /\ oci_pc' = "raised"
                  /\ oci_exc' = "KeyError"
                  /\ top_manifest' = top_manifest
                  /\ put_manifests' = {}
             ELSE /\ oci_pc' = "returned"
                  /\ oci_exc' = oci_exc
                  /\ top_manifest' = res.bytes
                  /\ put_manifests' =
                       {[img |-> 0, bytes |-> res.bytes,
                         config |-> res.config]}
    /\ runs' = runs + 1
    /\ UNCHANGED <<ociInputs, nonOciVars>>

\* the caller replicates the same artifact to the same target once more
ReplicateAgain ==
    /\ oci_pc = "returned"
    /\ runs < MaxRuns
    /\ oci_pc' = "call"
    /\ head_calls' = {}
    /\ get_calls' = {}
    /\ put_calls' = {}
    /\ sub_manifests' = {}
    /\ top_manifest' = ManifestBytes("none", "none")
    /\ manifest_list' = <<>>
    /\ put_manifests' = {}
    /\ UNCHANGED <<ociInputs, tgt_blobs, runs, oci_exc, nonOciVars>>

\* every source, mode, filter and annotation argument; the target is empty
\* or holds the first layer of every image already
OciInit ==
    /\ oci_mode \in ReplicationModes
    /\ src_kind \in SourceKinds
    /\ cfg_in_source \in BOOLEAN
    /\ client_passed \in BOOLEAN
    /\ platform_filter \in {"None", "linux/amd64"}
    /\ platforms \in [SubImages -> Platforms]
    /\ src_kind # "index" => platforms = [s \in SubImages |-> "linux/amd64"]
    /\ annotations \in {"None", "new", "present"}
    /\ holds_annotations \in SUBSET SubImages
    /\ src_kind # "index" \/ annotations # "new" => holds_annotations = {}
    /\ tgt_blobs \in {{}, {<<img, 1>> : img \in 0..NumSubs}}
    /\ oci_pc = "call"
    /\ runs = 0
    /\ head_calls = {}
    /\ get_calls = {}
    /\ put_calls = {}
    /\ sub_manifests = {}
    /\ top_manifest = ManifestBytes("none", "none")
    /\ manifest_list = <<>>
    /\ put_manifests = {}
    /\ oci_exc = "None"

InitOci ==
    /\ OciInit /\ CnudieIdle /\ IterIdle /\ PassIdle /\ CacheIdle
    /\ ReplIdle /\ PRIdle /\ EvtIdle /\ AbortIdle /\ WhdIdle

NextOci ==
    \/ ReplicateIndex
    \/ ReplicateNormalised
    \/ ReplicateSingle
    \/ ReplicateAgain

SpecOci == InitOci /\ [][NextOci]_vars

(***************************************************************************)
(* cnudie.iter.iter (cnudie/iter.py) and cnudie.retrieve.components        *)
(***************************************************************************)
\* number of component versions of the reference graph
NumComps == 3

Comps == 1..NumComps

\* the component the iteration starts with
RootComp == 1

\* The nested calls of the generator the interpreter allows. A chain of
\* more than NumComps nested calls holds a component twice, so it follows a
\* cycle of the graph and grows until the recursion limit is reached.
RecursionLimit == NumComps + 1

\* component.componentReferences in the order of the descriptor
RECURSIVE SortedSeq(_)
SortedSeq(S) ==
    IF S = {} THEN <<>>
    ELSE LET m == CHOOSE x \in S : \A y \in S : x <= y
         IN <<m>> \o SortedSeq(S \ {m})

componentReferences(c) == SortedSeq(references[c])

\* the reference graphs explored: up to two references of the root
\* component, up to one of every other component; cycles and references of a
\* component to itself included
ReferenceGraphs ==
    {g \in [Comps -> SUBSET Comps] :
        /\ Cardinality(g[RootComp]) <= 2
        /\ \A c \in Comps \ {RootComp} : Cardinality(g[c]) <= 1}

\* the call the interpreter is in, and the reference its loop is at
TopFrame == frames[Len(frames)]

HasNextRef ==
    /\ it_pc = "run"
    /\ frames # <<>>
    /\ TopFrame.done < Len(componentReferences(TopFrame.comp))

NextRef == componentReferences(TopFrame.comp)[TopFrame.done + 1]

\* frames with the loop of the innermost call advanced by one reference
Advanced == [frames EXCEPT ![Len(frames)].done = @ + 1]

Counted(c) ==
    [lookup_count EXCEPT ![c] = IF @ < 2 THEN @ + 1 ELSE @]

\* the loop over the references of a call is exhausted: the call returns
IterReturn ==
    /\ it_pc = "run"
    /\ frames # <<>>
    /\ ~HasNextRef
    /\ frames' = SubSeq(frames, 1, Len(frames) - 1)
    /\ it_pc' = IF Len(frames) = 1 THEN "done" ELSE "run"
    /\ UNCHANGED <<iterInputs, seen_component_ids, yielded, lookup_count,
                   nonIterVars>>

\* iter: lookup(cref_id), then `yield from inner_iter(...)`. The check
\* `identity() in seen_component_ids` is made by the outer loop on the
\* ComponentNode yielded: it keeps a seen node from the caller and records
\* the others if prune_unique; inner_iter does not read the set.
IterDescend ==
    /\ it_fn = "iter"
    /\ HasNextRef
    /\ Len(frames) < RecursionLimit
    /\ lookup_count' = Counted(NextRef)
    /\ frames' = Append(Advanced, [comp |-> NextRef, done |-> 0])
    /\ yielded' = yielded \cup {NextRef}
    /\ seen_component_ids' = IF prune_unique
                             THEN seen_component_ids \cup {NextRef}
                             ELSE seen_component_ids
    /\ it_pc' = it_pc
    /\ UNCHANGED <<iterInputs, nonIterVars>>

\* iter: the nesting of the generators reaches the recursion limit
IterRecursionError ==
    /\ it_fn = "iter"
    /\ HasNextRef
    /\ Len(frames) = RecursionLimit
    /\ lookup_count' = Counted(NextRef)
    /\ it_pc' = "raised"
    /\ UNCHANGED <<iterInputs, frames, seen_component_ids, yielded,
                   nonIterVars>>

\* components: `if cref in _visited_component_versions: continue`
ComponentsSkip ==
    /\ it_fn = "components"
    /\ HasNextRef
    /\ NextRef \in seen_component_ids
    /\ frames' = Advanced
    /\ UNCHANGED <<it_pc, iterInputs, seen_component_ids, yielded,
                   lookup_count, nonIterVars>>

\* components: the reference is recorded, looked up and resolved
ComponentsDescend ==
    /\ it_fn = "components"
    /\ HasNextRef
    /\ NextRef \notin seen_component_ids
    /\ seen_component_ids' = seen_component_ids \cup {NextRef}
    /\ lookup_count' = Counted(NextRef)
    /\ frames' = Append(Advanced, [comp |-> NextRef, done |-> 0])
    /\ yielded' = yielded \cup {NextRef}
    /\ UNCHANGED <<it_pc, iterInputs, nonIterVars>>

\* the generator was called for the root component, which it has yielded
IterInit ==
    /\ it_fn \in {"iter", "components"}
    /\ references \in ReferenceGraphs
    /\ prune_unique \in BOOLEAN
    /\ it_fn = "components" => prune_unique
    /\ it_pc = "run"
    /\ frames = <<[comp |-> RootComp, done |-> 0]>>
    /\ seen_component_ids = IF prune_unique THEN {RootComp} ELSE {}
    /\ yielded = {RootComp}
    /\ lookup_count = [c \in Comps |-> 0]

InitIter ==
    /\ IterInit /\ CnudieIdle /\ OciIdle /\ PassIdle /\ CacheIdle
    /\ ReplIdle /\ PRIdle /\ EvtIdle /\ AbortIdle /\ WhdIdle

NextIter ==
    \/ IterReturn
    \/ IterDescend
    \/ IterRecursionError
    \/ ComponentsSkip
    \/ ComponentsDescend

SpecIter == InitIter /\ [][NextIter]_vars

\* the generator is consumed to its end: weak fairness of every step
FairSpecIter == SpecIter /\ WF_vars(NextIter)

(***************************************************************************)
(* ReplicationResultProcessor: successive calls of process_results         *)
(***************************************************************************)
\* calls of process_results on one processor, and failed results of a call
MaxPasses == 3

MaxFailed == 2

\* One call of process_results with results of at least one concourse
\* target: a failed result switches self.remove_pipelines off, and the
\* pipelines of the targets are removed if self.remove_pipelines is set.
ProcessResultsPass ==
    /\ processor.constructed
    /\ Len(pass_log) < MaxPasses
    /\ \E failed_count \in 0..MaxFailed :
         LET remove == IF failed_count > 0 THEN FALSE
                       ELSE processor.remove_pipelines
         IN /\ processor' = [processor EXCEPT !.remove_pipelines = remove]
            /\ pass_log' = Append(pass_log, [failed_count |-> failed_count,
                                             cleaned |-> remove])
    /\ UNCHANGED nonPassVars

\* ReplicationResultProcessor.__init__: without job mapping ("None") or with
\* the cleanup policy of the job mapping
PassInit ==
    /\ \E arg \in BOOLEAN, policy \in CleanupPolicy \cup {"None"} :
         processor = [constructed |-> TRUE, remove_arg |-> arg,
                      cleanup_policy |-> policy,
                      remove_pipelines |->
                          IF policy = "NO_CLEANUP" THEN FALSE ELSE arg]
    /\ pass_log = <<>>

InitPass ==
    /\ PassInit /\ CnudieIdle /\ OciIdle /\ IterIdle /\ CacheIdle
    /\ ReplIdle /\ PRIdle /\ EvtIdle /\ AbortIdle /\ WhdIdle

NextPass == ProcessResultsPass

SpecPass == InitPass /\ [][NextPass]_vars

(***************************************************************************)
(* composite lookup over the in-memory cache: repeated lookups             *)
(***************************************************************************)
\* lookups of one composite
MaxLookups == 3

\* the component identities looked up
ComponentIds == {"c1", "c2"}

\* One call of a composite of the in-memory cache and one lower layer, with
\* ctx_repo = lookup_ctx_repo. The cache is asked for (component_id,
\* ctx_repo); at a miss the lower layer is consulted, and the write-back of
\* the cache stores the descriptor found under (component_id,
\* component.current_repository_ctx()), or raises ValueError if the
\* descriptor has none.
CachedLookup ==
    /\ lookup_ctx_repo # 0
    /\ Len(lookup_log) < MaxLookups
    /\ \E component_id \in ComponentIds, found \in BOOLEAN :
         IF <<component_id, lookup_ctx_repo>> \in cache
         THEN /\ lookup_log' = Append(lookup_log,
                    [component_id |-> component_id, by |-> "in_memory"])
              /\ cache' = cache
         ELSE IF ~found
         THEN /\ lookup_log' = Append(lookup_log,
                    [component_id |-> component_id, by |-> "nobody"])
              /\ cache' = cache
         ELSE IF descriptor_ctx_repo = 0
         THEN /\ lookup_log' = Append(lookup_log,
                    [component_id |-> component_id, by |-> "ValueError"])
              /\ cache' = cache
         ELSE /\ lookup_log' = Append(lookup_log,
                    [component_id |-> component_id, by |-> "lower"])
              /\ cache' = cache \cup {<<component_id, descriptor_ctx_repo>>}
    /\ UNCHANGED <<lookup_ctx_repo, descriptor_ctx_repo, evicted,
                   nonCacheVars>>

\* the LRU cache drops an entry
CacheEvict ==
    /\ lookup_ctx_repo # 0
    /\ \E key \in cache :
         /\ cache' = cache \ {key}
         /\ evicted' = evicted \cup {key}
    /\ UNCHANGED <<lookup_ctx_repo, descriptor_ctx_repo, lookup_log,
                   nonCacheVars>>

\* an empty cache; the repository context of the lookups and the one the
\* descriptors of the lower layer record
CacheInit ==
    /\ cache = {}
    /\ lookup_ctx_repo \in Repos
    /\ descriptor_ctx_repo \in Repos \cup {0}
    /\ evicted = {}
    /\ lookup_log = <<>>

InitCache ==
    /\ CacheInit /\ CnudieIdle /\ OciIdle /\ IterIdle /\ PassIdle
    /\ ReplIdle /\ PRIdle /\ EvtIdle /\ AbortIdle /\ WhdIdle

NextCache ==
    \/ CachedLookup
    \/ CacheEvict

SpecCache == InitCache /\ [][NextCache]_vars

(***************************************************************************)
(* Properties                                                              *)
(***************************************************************************)
Max(a, b) == IF a >= b THEN a ELSE b

\* process_results has visited every target of the run
AllTargetsProcessed ==
    /\ main_pc \in {"targets", "returned"}
    /\ todo_targets = <<>>

\* the pipeline names of all descriptors of the run that go to target t
RunNames(t) == {desc[d].name : d \in {e \in Descs : desc[e].target = t}}

\* pipelines found on target t that no descriptor of the run names and that
\* the filter does not protect
Orphans(t) ==
    {n \in existing[t] \ RunNames(t) :
        ~(remove_pipelines_filter.given /\ n \in remove_pipelines_filter.keep)}

DuplicateSkipped(d) == result[d] = DeployResult(SKIPPED, "dup")

\* C1: ensure_pr_resource_updates performs at most `retries` check rounds
\* (at most 10 with the default), and exactly one with retries=0, whatever
\* the backend answers.
C1_RoundsBoundedByRetries == checks <= Max(retries0, 1)

\* C2: if a result of the run has status FAILED, delete_pipeline is called
\* for no pipeline on any target.
C2_NoDeleteAfterFailed ==
    (\E d \in Descs : result[d].status = FAILED) => deleted = {}

C2_Witness ==
    /\ \E d \in Descs : result[d].status = FAILED
    /\ cleanup_policy = "CLEANUP_EXTRA_PIPELINES"
    /\ ~remove_pipelines_filter.given
    /\ \E t \in reordered : Orphans(t) # {}
    /\ AllTargetsProcessed

\* C3 as claimed: in a run whose results are all SUCCEEDED except for
\* duplicate-name SKIPPED results, with a policy that allows removal, every
\* orphan pipeline of a processed target is deleted.
C3_DuplicateSkipKeepsCleanup ==
    ( /\ AllTargetsProcessed
      /\ cleanup_policy = "CLEANUP_EXTRA_PIPELINES"
      /\ \E d \in Descs : DuplicateSkipped(d)
      /\ \A d \in Descs : DuplicateSkipped(d) \/ HasBit(result[d].status, SUCCEEDED) )
    => \A t \in reordered : \A n \in Orphans(t) : <<t, n>> \in deleted

\* C3 as amended: a duplicate-name SKIPPED result suppresses cleanup like any
\* result without the SUCCEEDED bit: in a run with such a result no pipeline
\* is deleted.  Every orphan of a target is deleted when all results carry
\* the SUCCEEDED bit, the policy allows removal and the target's iteration
\* ends without an error of the backend client.
C3_SkippedSuppressesCleanup ==
    /\ (\E d \in Descs : DuplicateSkipped(d)) => deleted = {}
    /\ ( /\ cleanup_policy = "CLEANUP_EXTRA_PIPELINES"
         /\ main_pc \in {"targets", "returned"}
         /\ \A d \in Descs : HasBit(result[d].status, SUCCEEDED) )
       => \A t \in reordered : \A n \in Orphans(t) : <<t, n>> \in deleted

C3_Witness ==
    /\ AllTargetsProcessed
    /\ cleanup_policy = "CLEANUP_EXTRA_PIPELINES"
    /\ ~remove_pipelines_filter.given
    /\ \E d \in Descs : DuplicateSkipped(d)
    /\ \A d \in Descs : DuplicateSkipped(d) \/ HasBit(result[d].status, SUCCEEDED)
    /\ \E t \in reordered : Orphans(t) # {}
    /\ deleted = {}

\* the worker of d found the name free (it is about to insert it, or has
\* inserted it)
PassedDuplicateCheck(d) ==
    \/ pc[d] \in {"nc_add", "deploy", "retry"}
    \/ pc[d] = "done" /\ result[d].err \in {"render", "trace", "none"}

\* C4: of the workers processing descriptors with the same pipeline name at
\* most one passes the duplicate check; each of the others returns SKIPPED
\* 'duplicate pipeline name' and is never handed to the deployer; the test
\* and the insertion are one critical section.
C4_OneWinnerPerName ==
    /\ \A d, e \in Descs :
          (d # e /\ desc[d].name = desc[e].name)
            => ~(PassedDuplicateCheck(d) /\ PassedDuplicateCheck(e))
    /\ \A d \in Descs :
          (pc[d] = "done" /\ desc[d].exception = "None" /\ ~PassedDuplicateCheck(d))
            => /\ DuplicateSkipped(d)
               /\ d \notin deployed
               /\ set_calls[d] = 0
    /\ Cardinality({d \in Descs : pc[d] \in {"nc_test", "nc_add"}}) <= 1

C4_Witness ==
    \E d, e \in Descs :
       /\ d # e
       /\ desc[d].name = desc[e].name
       /\ pc[d] = "done" /\ pc[e] = "done"
       /\ DuplicateSkipped(d)
       /\ e \in deployed
       /\ render_status[d] = "SUCCEEDED"

\* C5: when exactly two descriptors of a run have the same pipeline name and
\* at least one of them renders successfully, exactly one of them is
\* deployed and the other one is SKIPPED as a duplicate.
C5_ExactlyOneDeploy ==
    \A d, e \in Descs :
       ( /\ d # e
         /\ desc[d].name = desc[e].name
         /\ \A f \in Descs \ {d, e} : desc[f].name # desc[d].name
         /\ desc[d].exception = "None" /\ desc[e].exception = "None"
         /\ pc[d] = "done" /\ pc[e] = "done"
         /\ render_status[d] = "SUCCEEDED" \/ render_status[e] = "SUCCEEDED" )
       => /\ Cardinality({d, e} \cap deployed) = 1
          /\ \E f \in {d, e} : DuplicateSkipped(f)

\* C6 as claimed: a pipeline whose deploy produced the CREATED bit has
\* unpause_pipeline called on it iff unpause_new_pipelines is true.
C6_UnpausedIffUnpauseNew ==
    \A d \in Descs :
       HasBit(result[d].status, CREATED)
         => (d \in unpaused_dep \cup unpaused_proc <=> unpause_new_pipelines)

\* C6 as amended: in a run set up by replicate_pipelines, a pipeline whose
\* deploy produced the CREATED bit has unpause_pipeline called on it iff
\* unpause_pipelines or unpause_new_pipelines is true (the deployer unpauses
\* every pipeline when unpause_pipelines is set); the result processor calls
\* it, once it has processed the pipeline's target, iff
\* unpause_new_pipelines is true.
C6_UnpausedIffEitherFlag ==
    \A d \in Descs :
       HasBit(result[d].status, CREATED)
         => /\ d \in unpaused_dep \cup unpaused_proc
                 <=> (unpause_pipelines \/ unpause_new_pipelines)
            /\ desc[d].target \in reordered
                 => (d \in unpaused_proc <=> unpause_new_pipelines)

C6_Witness ==
    \E d \in Descs :
       /\ HasBit(result[d].status, CREATED)
       /\ unpause_pipelines /\ ~unpause_new_pipelines
       /\ d \in unpaused_dep
       /\ d \notin unpaused_proc
       /\ desc[d].target \in reordered

C8_RenderMutualExclusion ==
    Cardinality({d \in Descs : pc[d] = "in_render"}) <= 1

\* C9: delete_pipeline, the initial resource checks and the reordering
\* happen only after every worker has finished its descriptor, and the
\* deployed names used to compute the orphans of a target are those of all
\* results of the run for that target.
C9_CleanupAfterBarrier ==
    /\ ( \/ main_pc \in {"targets", "returned"}
         \/ deleted # {} \/ checked # {} \/ reordered # {}
         \/ unpaused_proc # {} )
       => \A d \in Descs : pc[d] = "done"
    /\ \A t \in Targets : used_names[t] # {} => used_names[t] = RunNames(t)

C9_Witness ==
    /\ deleted # {}
    /\ checked # {}
    /\ reordered # {}
    /\ \E t \in Targets : used_names[t] # {}

\* C10: every exception raised while a worker preprocesses, renders or
\* deploys a descriptor becomes a result of that descriptor; none leaves the
\* worker or ends replicate() before the results are processed.
C10_NoExceptionEscapes ==
    /\ \A d \in Descs : pc[d] # "raised"
    /\ main_pc = "raised" => collected = NumDesc


\* process_results has left its loop over the targets and has ended, by
\* returning or with an exception of its notification part
NotificationPhaseEnded ==
    /\ collected = NumDesc
    /\ todo_targets = <<>>
    /\ main_pc \in {"returned", "raised"}

\* C11: once the results are processed replicate() returns (it does not
\* raise): True when no result failed or no attempted notification raised,
\* also when a notification was suppressed, and False if and only if at
\* least one attempted owner notification raised.
C11_ReturnsFalseIffNotificationRaised ==
    NotificationPhaseEnded =>
        /\ main_pc = "returned"
        /\ (ret = "False") <=> ~all_notifications_succeeded
        /\ (ret = "True") <=> all_notifications_succeeded


\* the worker of d returned the SKIPPED result of a failed rendering
RenderFailedResult(d) ==
    /\ d \in 1..collected
    /\ result[d].err = "render"

\* C12: for a descriptor whose rendering failed with an exception of one of
\* the ignore_exceptions classes no notification is sent to the owners;
\* owners are notified only for failures with other exception classes.
C12_NoNotificationForIgnoredRenderException ==
    \A d \in Descs :
        (RenderFailedResult(d) /\ render_exception[d] \in ignore_exceptions)
            => d \notin notified


\* the last api.set_pipeline call made for d raised
SetPipelineFailed(d) ==
    /\ set_log[d] # <<>>
    /\ set_log[d][Len(set_log[d])] # "ok"

\* C13: deploy calls set_pipeline at most twice per descriptor; the second
\* call is made only after an HTTP 500 with the save-race body; any other
\* error of the first call, and any failure of the retried call, ends in a
\* FAILED result with no further call and no unpause or expose call.
C13_RetryOnlyAfterSaveRace ==
    \A d \in Descs :
        /\ set_calls[d] = Len(set_log[d])
        /\ set_calls[d] <= 2
        /\ set_calls[d] = 2 => set_log[d][1] = "save_race"
        /\ (pc[d] = "retry") => set_log[d] = <<"save_race">>
        /\ (SetPipelineFailed(d) /\ pc[d] # "retry") =>
              /\ pc[d] = "done"
              /\ result[d] = DeployResult(FAILED, "trace")
              /\ d \notin unpaused_dep
              /\ d \notin exposed

\* both kinds of failure happened in one run: an error that is no save race
\* on the first call, and a failing retry after a save race
C13_Witness ==
    \E d, e \in Descs :
        /\ set_log[d] = <<"error">>
        /\ set_log[e] = <<"save_race", "save_race">>
        /\ result[d].status = FAILED
        /\ result[e].status = FAILED


\* the <org>/<team> name a trusted_teams entry stands for
TeamNameOf(t) == IF Len(t) = 3 THEN <<t[2], t[3]>> ELSE t

\* the sender is in none of the declared trusted teams when teams are
\* declared, and is no member of the owning organisation when none is
SenderOutsideDeclaredTeams ==
    IF trusted_teams # {}
    THEN \A t \in trusted_teams : TeamNameOf(t) \notin member_of
    ELSE ~org_member

\* the trusted_teams entries that apply to the host of the event
ApplicableTeams ==
    {t \in trusted_teams : Len(t) = 2 \/ (Len(t) = 3 /\ t[1] = EventHost)}

\* the sender is in no trusted team that applies to the host when there is
\* one, and is no member of the owning organisation when there is none
SenderUntrusted ==
    IF ApplicableTeams # {}
    THEN \A t \in ApplicableTeams : TeamNameOf(t) \notin member_of
    ELSE ~org_member

\* batches the loop of process_pr_event has passed or raised in
BatchesDone ==
    {i \in 1..Len(concourse_clients) : i < batch \/ (i = batch /\ ev_pc = "raised")}

\* C14 as stated: when a pull request is opened by a sender who is in no
\* declared trusted team (teams declared) and no member of the owning
\* organisation (none declared), handling the OPENED event applies no label
\* to the pull request.
C14_NoLabelForUntrustedOpener ==
    (action = "OPENED" /\ SenderOutsideDeclaredTeams) => labels_added = {}

\* C14, amended: when the sender of an OPENED event is in no trusted team
\* that applies to the event's host (such teams exist) and no member of the
\* owning organisation (none exists), no batch adds a label: the only label
\* the handling can add is the tagging label of a failed validation.
C14_NoRequiredLabelForUntrustedOpener ==
    (action = "OPENED" /\ SenderUntrusted) =>
        \A la \in labels_added : la = <<0, TaggingLabel>>

\* an untrusted sender's OPENED event was handled for two clients whose
\* resources require labels, with trusted teams declared
C14_Witness ==
    /\ action = "OPENED"
    /\ SenderUntrusted
    /\ ApplicableTeams # {}
    /\ org_member
    /\ has_job_mapping
    /\ ev_pc = "returned"
    /\ Len(concourse_clients) = 2
    /\ \A i \in 1..2 : required_labels(concourse_clients[i]) # {}
    /\ labels_added = {}


\* batches for which set_pr_labels asked _should_label and got an answer: an
\* OPENED or SYNCHRONIZE event, required labels, a job mapping, and no
\* malformed trusted_teams entry
LabelDecided ==
    {i \in BatchesDone :
        /\ action \in {"OPENED", "SYNCHRONIZE"}
        /\ required_labels(concourse_clients[i]) # {}
        /\ has_job_mapping
        /\ \A t \in trusted_teams : Len(t) \in {2, 3}}

\* _should_label returned True for batch i: its required labels were added
LabelAllowed(i) ==
    {la \in labels_added : la[1] = i}
        = {<<i, l>> : l \in required_labels(concourse_clients[i])}

\* _should_label returned False for batch i: no label was added
LabelDenied(i) == {la \in labels_added : la[1] = i} = {}

\* the sender is a member of a trusted team that applies to the host
InApplicableTeam == \E t \in ApplicableTeams : TeamNameOf(t) \in member_of

\* C15 as stated: _should_label allows labelling if the sender is a member
\* of some trusted team whose host part, if any, matches the event's host,
\* and otherwise if and only if the sender is a member of the owning
\* organisation.
C15_TeamMemberOrElseOrgMember ==
    \A i \in LabelDecided :
        /\ (InApplicableTeam \/ org_member) => LabelAllowed(i)
        /\ ~(InApplicableTeam \/ org_member) => LabelDenied(i)

\* C15, amended: when some trusted team applies to the event's host,
\* _should_label allows labelling if and only if the sender is a member of
\* such a team; when none applies (none declared, or all filtered out by the
\* host) if and only if the sender is a member of the owning organisation.
\* An entry with neither two nor three parts makes it raise.
C15_TeamsDecideWhenApplicable ==
    /\ \A i \in LabelDecided :
          /\ ApplicableTeams # {} =>
                /\ InApplicableTeam => LabelAllowed(i)
                /\ ~InApplicableTeam => LabelDenied(i)
          /\ ApplicableTeams = {} =>
                /\ org_member => LabelAllowed(i)
                /\ ~org_member => LabelDenied(i)
    /\ \A i \in BatchesDone :
          ( /\ action \in {"OPENED", "SYNCHRONIZE"}
            /\ required_labels(concourse_clients[i]) # {}
            /\ has_job_mapping
            /\ \E t \in trusted_teams : Len(t) \notin {2, 3} )
          => (ev_pc = "raised" /\ i = batch /\ LabelDenied(i))

\* a member of the organisation, and of a team that is trusted on another
\* host only, is denied because another trusted team applies to the host
C15_Witness ==
    /\ action = "SYNCHRONIZE"
    /\ trusted_teams = {<<"org", "dev">>, <<"other.host", "org", "ops">>}
    /\ member_of = {<<"org", "ops">>}
    /\ org_member
    /\ \E i \in LabelDecided : LabelDenied(i)


\* the builds abort_build was called on for job j of pipeline p
AbortedOf(p, j) == {a[3] : a \in {b \in aborted : b[1] = p /\ b[2] = j}}

\* the running builds of job_builds in the order of the list
RunningIdx == {i \in 1..Len(job_builds) : job_builds[i].running}

\* build i is one of the first builds_to_consider running builds
AmongFirstRunning(i) ==
    /\ i \in RunningIdx
    /\ Cardinality({k \in RunningIdx : k <= i}) <= builds_to_consider

\* C16: only builds that are running and whose plan references the previous
\* ref are aborted, at most 5 per job, and only among the first 5 running
\* builds of the job.
C16_AbortScope ==
    /\ \A a \in aborted :
          /\ a[3] \in 1..Len(job_builds)
          /\ job_builds[a[3]].running
          /\ job_builds[a[3]].prev
          /\ AmongFirstRunning(a[3])
    /\ \A h \in handled :
          Cardinality(AbortedOf(h[1], h[2])) <= builds_to_consider

\* a job has more than 5 running builds that reference the previous ref, the
\* first one is preceded by a finished build, and exactly 5 were aborted
C16_Witness ==
    /\ Len(job_builds) > builds_to_consider
    /\ ~job_builds[1].running
    /\ \A i \in 2..Len(job_builds) : job_builds[i].running /\ job_builds[i].prev
    /\ Cardinality(aborted) = builds_to_consider
    /\ ab_pc = "returned"

\* C17: no build is aborted for a job with policy never, nor for a job with
\* policy on_force_push_only when the push is not forced; for a job with
\* policy always, or on_force_push_only on a forced push, every considered
\* running build whose plan references the previous ref is aborted, and a
\* running build referencing another ref is not.
C17_PolicyDecidesAbort ==
    \A h \in handled :
        LET p      == h[1]
            j      == h[2]
            job    == pipelines[p].jobs[j]
            applies == \/ job.policy = "always"
                       \/ job.policy = "on_force_push_only" /\ is_forced_push
        IN job.configured =>
             IF applies
             THEN AbortedOf(p, j) =
                    {i \in 1..Len(job_builds) :
                        AmongFirstRunning(i) /\ job_builds[i].prev}
             ELSE AbortedOf(p, j) = {}


\* the labels the handling of batch i added
LabelsAddedBy(i) == {la[2] : la \in {lb \in labels_added : lb[1] = i}}

\* batch i has matching resources, and the loop of process_pr_event has
\* passed it
BatchPassed(i) ==
    /\ i \in 1..Len(concourse_clients)
    /\ i < batch
    /\ concourse_clients[i] # {}

\* C18: for a LABELED event with the label lgtm or reviewed/lgtm and a batch
\* requiring labels that are not yet on the pull request, the required
\* labels of the batch are added and a resource check is triggered on the
\* batch, whoever the sender is (a job mapping for the repository exists).
C18_LgtmAddsRequiredLabels ==
    \A i \in 1..Len(concourse_clients) :
        ( /\ BatchPassed(i)
          /\ action = "LABELED"
          /\ event_label \in LgtmLabels
          /\ has_job_mapping
          /\ required_labels(concourse_clients[i]) \ label_names # {} )
        => /\ LabelsAddedBy(i) = required_labels(concourse_clients[i])
           /\ i \in checks_triggered

\* the batch was skipped: nothing was done for it
BatchSkipped(i) ==
    /\ i \notin checks_triggered
    /\ i \notin updates_entered
    /\ i \notin untriggered_handled
    /\ LabelsAddedBy(i) = {}

\* a LABELED event whose label is no lgtm label and is not required by any
\* resource of batch i
OtherLabelEvent(i) ==
    /\ action = "LABELED"
    /\ event_label \notin LgtmLabels
    /\ event_label \notin required_labels(concourse_clients[i])

\* C19 as stated: for a LABELED event whose label is neither lgtm nor
\* reviewed/lgtm and is not required by any resource of the batch, batches
\* whose resources require no label included, the batch is skipped: no
\* resource check, no label added, the update loop not entered.
C19_UnrequiredLabelSkipsBatch ==
    \A i \in 1..Len(concourse_clients) :
        (BatchPassed(i) /\ OtherLabelEvent(i)) => BatchSkipped(i)

\* C19, amended: such an event skips a batch that requires at least one
\* label; for a batch whose resources require no label the resource check
\* is triggered and the update loop entered, and no label is added.
C19_UnrequiredLabelSkipsLabelledBatch ==
    \A i \in 1..Len(concourse_clients) :
        (BatchPassed(i) /\ OtherLabelEvent(i)) =>
            IF required_labels(concourse_clients[i]) # {}
            THEN BatchSkipped(i)
            ELSE /\ i \in checks_triggered
                 /\ i \in updates_entered
                 /\ LabelsAddedBy(i) = {}

\* a kind/bug label event was handled for a batch that requires a label and
\* for a batch that requires none
C19_Witness ==
    /\ action = "LABELED"
    /\ event_label = "kind/bug"
    /\ concourse_clients = <<{"r1"}, {"r2"}>>
    /\ ev_pc = "returned"
    /\ BatchSkipped(1)
    /\ checks_triggered = {2}

\* the comments the handling of batch i posted
CommentsOf(i) == {c \in comments : c.batch = i}

\* set_pr_labels decided on a sender who is not trusted, for batch i
UntrustedDecision(i) ==
    /\ i \in LabelDecided
    /\ SenderUntrusted

PushHandlerEnded ==
    /\ thread_target = "process_push_event"
    /\ th_pc \in {"done", "raised"}

\* _update_pipeline_definition raised an exception `except ValueError` does
\* not catch
UpdateEscaped == th_pc = "raised" /\ ab_pc = "idle"

\* client.pipeline_cfg raised an HTTPError other than 404
PipelineCfgError == \E i \in 1..Len(pipelines) : pipelines[i].cfg = "error"

\* re-replication, abort-obsolete-builds, one resource check per client
StepsInOrder ==
    (IF _pipeline_definition_changed THEN <<CallRec("update", 0)>> ELSE <<>>)
      \o <<CallRec("abort", 0)>>
      \o [c \in 1..Len(git_resources) |-> CallRec("check", c)]

AllMatchingResources ==
    UNION {{<<c, r.name>> : r \in matching_resources(git_resources[c])} :
             c \in 1..Len(git_resources)}

\* C21: the handler of a push event calls the re-replication (iff the
\* modified paths contain .ci/pipeline_definitions, and a ValueError it raises
\* is no obstacle), then abort-obsolete-builds, then the resource check of
\* every matching git resource of every client, in that order, and touches no
\* label. Runs in which the environment fails (an exception of the
\* re-replication that is no ValueError, an HTTP error of pipeline_cfg) are
\* left out.
C21_PushStepsInOrder ==
    (PushHandlerEnded /\ ~UpdateEscaped /\ ~PipelineCfgError)
      => /\ call_log = StepsInOrder
         /\ checked_resources = AllMatchingResources
         /\ ~label_ops

\* the same, for the pushes on which the policy chain of
\* abort_running_jobs_if_configured has a branch
PolicyChainRaises ==
    /\ is_forced_push
    /\ \E i \in 1..Len(pipelines) : \E j \in 1..Len(pipelines[i].jobs) :
         /\ pipelines[i].jobs[j].configured
         /\ pipelines[i].jobs[j].policy = "on_force_push_only"

PushStepsInOrderUnlessPolicyChainRaises ==
    (PushHandlerEnded /\ ~UpdateEscaped /\ ~PipelineCfgError
       /\ ~PolicyChainRaises)
      => /\ call_log = StepsInOrder
         /\ checked_resources = AllMatchingResources
         /\ ~label_ops

\* a forced push with a changed pipeline definition and a job of policy
\* on_force_push_only: the handler ends without any resource check
PushWithoutResourceCheck ==
    /\ PushHandlerEnded
    /\ _pipeline_definition_changed
    /\ PolicyChainRaises
    /\ th_pc = "raised"
    /\ checked_resources = {}
    /\ AllMatchingResources # {}


(***************************************************************************)
(* on_post and the handler threads                                         *)
(***************************************************************************)
\* C22: on_post returns once the handler thread is started, before the
\* thread has taken a step, and nothing the thread does afterwards (its
\* return, an exception that ends it) changes what the HTTP layer has: the
\* response text stays what it was at the return and no exception reaches
\* the HTTP layer.
C22_HandlerInvisibleToHttp ==
    [][/\ (http_pc = "recv" /\ http_pc' = "returned")
            => th_pc' \in {"none", "start"}
       /\ http_pc = "returned"
            => /\ http_pc' = "returned"
               /\ resp_text' = resp_text
       /\ ~http_exc']_vars

\* on_post has returned and the handler thread of the push event has been
\* ended by an exception
C22_Witness ==
    /\ http_pc = "returned"
    /\ thread_target = "process_push_event"
    /\ th_pc = "raised"
    /\ resp_text = "None"

\* the actions dispatch_pullrequest_event processes
ActedActions == {"OPENED", "REOPENED", "LABELED", "SYNCHRONIZE"}

\* no step of a handler has been taken
NoHandlerRan ==
    /\ thread_target = "none"
    /\ th_pc = "none"
    /\ call_log = <<>>
    /\ update_run = <<>>
    /\ ~label_ops

\* C23: when on_post has returned, a handler thread has been started iff the
\* event is a push, a create with ref_type BRANCH, or a pull_request with an
\* action among OPENED, REOPENED, LABELED, SYNCHRONIZE; for a pull_request
\* with another action no handler runs and the response text is
\* 'Event ignored'; for the other event types no handler runs.
C23_HandlerStartedIffActedEvent ==
    http_pc = "returned"
      => /\ thread_target # "none"
              <=> \/ event = "push"
                  \/ event = "create" /\ ref_type = "BRANCH"
                  \/ event = "pull_request" /\ pr_action \in ActedActions
         /\ thread_target = "none" => NoHandlerRan
         /\ (event = "pull_request" /\ pr_action \notin ActedActions)
              => NoHandlerRan /\ resp_text = "Event ignored"
         /\ event \notin {"push", "create", "pull_request"} => NoHandlerRan
         /\ (event # "pull_request" \/ pr_action \in ActedActions)
              => resp_text = "None"

\* a pull_request event with the action REOPENED has its handler running,
\* one with the action CLOSED has been answered with 'Event ignored'
C23_Witness ==
    /\ http_pc = "returned"
    /\ event = "pull_request"
    /\ \/ pr_action = "REOPENED" /\ thread_target = "process_pr_event"
             /\ th_pc = "done"
       \/ pr_action = "CLOSED" /\ resp_text = "Event ignored"


(***************************************************************************)
(* Composite lookup                                                        *)
(***************************************************************************)
\* the composite lookup has returned or raised
LookupEnded == lk_pc \in {"returned", "raised"}

Layers == 1..Len(lookups)

\* the layers whose lookup yields no result without stopping the loop
Passes(i) == lookups[i] \in {"None", "WriteBack", "OciImageNotFoundException"}

\* layer i yields the descriptor and every layer before it was a miss
HitAt(i) ==
    /\ i \in Layers
    /\ lookups[i] = "ComponentDescriptor"
    /\ \A k \in 1..(i - 1) : Passes(k)

\* every layer was consulted and none yielded a descriptor or an error
TotalMiss == \A k \in Layers : Passes(k)

\* number of invocations of the WriteBack of layer i
Invocations(i) == Cardinality({k \in 1..Len(wb_calls) : wb_calls[k] = i})

\* C24: after a hit at layer h the WriteBack of every layer before h that
\* returned one has been invoked exactly once and no other has; after a
\* total miss no WriteBack has been invoked.
C24_WriteBackOncePerMissedLayer ==
    LookupEnded
      => /\ \A h \in Layers :
              HitAt(h)
                => \A i \in Layers :
                     Invocations(i) =
                       IF i < h /\ lookups[i] = "WriteBack" THEN 1 ELSE 0
         /\ TotalMiss => wb_calls = <<>>

\* a hit behind two cache layers with a descriptor that has no repository
\* context: the first write-back raised, the second was not invoked
WriteBackSkipped ==
    /\ LookupEnded
    /\ \E h \in Layers : HitAt(h)
    /\ Len(writebacks) = 2
    /\ Len(wb_calls) = 1
    /\ lk_exc = "ValueError"
    /\ lk_ret = "none"

\* C24 for the descriptors that have a repository context
WriteBackOncePerMissedLayerWithCtx ==
    (LookupEnded /\ has_repository_ctx)
      => /\ \A h \in Layers :
              HitAt(h)
                => \A i \in Layers :
                     Invocations(i) =
                       IF i < h /\ lookups[i] = "WriteBack" THEN 1 ELSE 0
         /\ TotalMiss => wb_calls = <<>>

\* layer e raises an error other than not-found, every layer before it
\* having been a miss
ErrorAt(e) ==
    /\ e \in Layers
    /\ lookups[e] = "ValueError"
    /\ \A k \in 1..(e - 1) : Passes(k)

\* C25 as stated: an error other than not-found of a layer is retained; the
\* later layers are still consulted, a descriptor one of them yields is
\* returned, and the error leaves the lookup only after the last layer.
\* (Descriptors without repository context, whose write-back raises, are
\* left out.)
C25_OtherErrorsRetained ==
    (LookupEnded /\ has_repository_ctx)
      => \A e \in Layers :
           ErrorAt(e)
             => /\ (\E h \in Layers : lookups[h] = "ComponentDescriptor")
                     => lk_ret = "ComponentDescriptor"
                /\ lk_pc = "raised" => layer_idx = Len(lookups)

\* C25, amended: an error other than not-found of a layer leaves the
\* composite lookup at once: no later layer is consulted, no WriteBack is
\* invoked and nothing is returned. The not-found error of a layer is
\* suppressed: the lookup goes on with the next layer.
C25_OtherErrorsPropagateAtOnce ==
    LookupEnded
      => /\ \A e \in Layers :
              ErrorAt(e)
                => /\ lk_pc = "raised"
                   /\ lk_exc = "ValueError"
                   /\ layer_idx = e
                   /\ wb_calls = <<>>
                   /\ lk_ret = "none"
         /\ \A h \in Layers : HitAt(h) => layer_idx = h

\* the first layer raised an error other than not-found, a later layer
\* would have yielded the descriptor, and the error has left the lookup
C25_Witness ==
    /\ lk_pc = "raised"
    /\ ErrorAt(1)
    /\ \E h \in Layers : lookups[h] = "ComponentDescriptor"
    /\ layer_idx = 1

\* C26: after a total miss the composite lookup has returned None if
\* absent_ok is true and has raised OciImageNotFoundException if it is false,
\* whatever the ctx_repo argument.
C26_TotalMissNoneOrNotFound ==
    (LookupEnded /\ TotalMiss)
      => IF absent_ok
         THEN lk_pc = "returned" /\ lk_ret = "None"
         ELSE lk_pc = "raised" /\ lk_exc = "OciImageNotFoundException"

\* a total miss without ctx_repo and with absent_ok false ends with an
\* AttributeError
TotalMissAttributeError ==
    /\ LookupEnded
    /\ TotalMiss
    /\ lookups # <<>>
    /\ ctx_repo = "None"
    /\ ~absent_ok
    /\ lk_exc = "AttributeError"

\* C26 for the calls that pass a ctx_repo
TotalMissWithCtxRepo ==
    (LookupEnded /\ TotalMiss /\ ctx_repo # "None")
      => IF absent_ok
         THEN lk_pc = "returned" /\ lk_ret = "None"
         ELSE lk_pc = "raised" /\ lk_exc = "OciImageNotFoundException"


(***************************************************************************)
(* Lookups with a mapping config                                           *)
(***************************************************************************)
LayerLookupEnded == ly_pc \in {"returned", "raised"}

\* the backend of the layer holds the descriptor under a candidate
AvailableUnderCandidate ==
    \E k \in 1..Len(ocm_repositories) : ocm_repositories[k] \in stored

\* the first candidate, in mapping order, that yields the descriptor
FirstYielding == ocm_repositories[FirstStored(ocm_repositories)]

\* C27: with a mapping config every layer asks the candidate repositories in
\* mapping order and returns the descriptor of the first candidate that
\* yields one; a descriptor available under a later candidate only is found.
C27_FirstYieldingCandidateWins ==
    (LayerLookupEnded /\ AvailableUnderCandidate)
      => /\ ly_res = LayerRes("ComponentDescriptor", FirstYielding)
         /\ tried = TriedUntilFound(ocm_repositories)

\* the filesystem cache holds the descriptor under the second candidate
\* only, and its lookup has returned the WriteBack
FileSystemMissesLaterCandidate ==
    /\ LayerLookupEnded
    /\ layer = "file_system"
    /\ Len(ocm_repositories) >= 2
    /\ ocm_repositories[1] \notin stored
    /\ ocm_repositories[2] \in stored
    /\ ly_res.kind = "WriteBack"

\* C27 for the three other layers
FirstYieldingCandidateWinsExceptFileSystem ==
    (LayerLookupEnded /\ AvailableUnderCandidate /\ layer # "file_system")
      => /\ ly_res = LayerRes("ComponentDescriptor", FirstYielding)
         /\ tried = TriedUntilFound(ocm_repositories)


(***************************************************************************)
(* Filesystem cache                                                        *)
(***************************************************************************)
\* the cache_dir argument of the filesystem cache
CacheDir == "cache_dir"

\* C28: every temp file of a write-back is in the cache directory, and a
\* lookup running concurrently with the write-backs reads either no file or
\* a complete descriptor, never a partially written one.
C28_AtomicWriteBack ==
    /\ \A w \in Writers : tmp_dir[w] \in {"none", CacheDir}
    /\ observed # "partial"

\* the lookup has read a partially written descriptor file
PartialDescriptorRead ==
    /\ rd_pc = "returned"
    /\ observed = "partial"
    /\ ~same_filesystem

\* with the cache dir on the file system of the temp dir the move is a rename
\* and the lookup reads no partial file
NoPartialReadOnSameFilesystem == same_filesystem => observed # "partial"



\* a call of replicate_artifact for an artifact that an earlier call
\* replicated to the same target has returned
ReReplicated == runs >= 2 /\ oci_pc = "returned"

RerunOfIndex ==
    /\ ReReplicated
    /\ src_kind = "index"
    /\ sub_manifests = SubImages
    /\ head_calls # {}

RerunOfV2 == ReReplicated /\ src_kind = "v2" /\ head_calls = LayerBlobs(0) \cup {CfgBlob(0)}

\* nothing but "verbatim" arguments: no platform filter, no annotations,
\* and a mode that asks for the multi-arch manifest
VerbatimCall ==
    /\ oci_pc = "returned"
    /\ platform_filter = "None"
    /\ annotations = "None"
    /\ \/ oci_mode = "prefer_multiarch"
       \/ oci_mode = "normalise_to_multiarch" /\ src_kind = "index"

\* C30 (as stated): with no platform filter and no annotations, the bytes of
\* the top-level manifest PUT to the target equal the bytes fetched from the
\* source, in PREFER_MULTIARCH mode and, for a multi-arch source, in
\* NORMALISE_TO_MULTIARCH mode.
C30_TopManifestVerbatim == VerbatimCall => top_manifest = SourceBytes

\* C30 (amended): the same for sources with a schemaVersion 2 manifest; the
\* manifest of a schema-v1 source is converted to v2 and PUT as the output of
\* json.dumps, not as the bytes fetched.
C30_TopManifestVerbatimForV2 ==
    VerbatimCall =>
        /\ src_kind # "v1" => top_manifest = SourceBytes
        /\ src_kind = "v1" =>
             top_manifest = ManifestBytes("converted", "json.dumps")

\* a multi-arch source replicated in NORMALISE_TO_MULTIARCH mode with the
\* bytes of its index left as fetched
C30_Witness ==
    /\ VerbatimCall
    /\ oci_mode = "normalise_to_multiarch"
    /\ sub_manifests = SubImages
    /\ top_manifest = SourceBytes

VerbatimCallOfV1 == VerbatimCall /\ src_kind = "v1"



\* a call for a schema-v1 source has returned: the config blob was
\* synthesised and uploaded, and the manifest was PUT
SynthesisedAndPut ==
    /\ oci_pc = "returned"
    /\ src_kind = "v1"
    /\ SynthCfgBlob(0) \in put_calls
    /\ put_manifests # {}

\* C31 (as stated): whenever replicate_artifact synthesises a config blob,
\* the config of the manifest it PUTs is the uploaded synthetic blob (its
\* digest and its size), also when annotations are passed in the call.
C31_ManifestReferencesSynthesisedBlob ==
    SynthesisedAndPut =>
        \A m \in put_manifests : m.config = SynthCfgBlob(m.img)

\* the same for the calls in which no annotation is new or different
ManifestReferencesSynthesisedBlobUnlessAnnotated ==
    SynthesisedAndPut /\ annotations # "new" =>
        \A m \in put_manifests : m.config = SynthCfgBlob(m.img)

\* annotations are passed and already present, and the manifest references
\* the synthesised blob
SynthesisedWithPresentAnnotations ==
    /\ SynthesisedAndPut
    /\ annotations = "present"
    /\ \A m \in put_manifests : m.config = SynthCfgBlob(m.img)

\* a call with a platform filter for a multi-arch source has returned
FilteredIndexPut ==
    /\ oci_pc = "returned"
    /\ src_kind = "index"
    /\ platform_filter # "None"

\* the sub-images of the entries of the manifest list PUT
ListedSubs == {manifest_list[i].sub : i \in DOMAIN manifest_list}

\* C32: with a platform filter for a multi-arch source, the manifest list PUT
\* holds exactly the sub-manifests whose platform satisfies the filter, the
\* digest and the size of each entry are those of the manifest bytes PUT for
\* that sub-image, and the list is re-serialised whenever an entry was
\* removed or replaced.
C32_FilteredManifestList ==
    FilteredIndexPut =>
        /\ ListedSubs = {s \in SubImages : platforms[s] = "linux/amd64"}
        /\ Len(manifest_list) = Cardinality(ListedSubs)
        /\ \A i \in DOMAIN manifest_list :
             \E m \in put_manifests :
                 /\ m.img = manifest_list[i].sub
                 /\ m.bytes = manifest_list[i].digest
        /\ \/ ListedSubs # SubImages
           \/ \E i \in DOMAIN manifest_list :
                 manifest_list[i] # SourceManifests[manifest_list[i].sub]
           => top_manifest.form = "json.dumps"

\* a filtered replication in which an entry was removed and another replaced
C32_Witness ==
    /\ FilteredIndexPut
    /\ ListedSubs # SubImages
    /\ \E i \in DOMAIN manifest_list :
          manifest_list[i].digest # SourceBytes
    /\ top_manifest.form = "json.dumps"

\* C39 (as stated): the entries retained in the target manifest list keep the
\* relative order they have in the source manifest list, whatever entries
\* the platform filter removes and whatever entries are replaced.
C39_ManifestListOrderKept ==
    oci_pc = "returned" /\ src_kind = "index" =>
        \A i, j \in DOMAIN manifest_list :
            i < j => manifest_list[i].sub < manifest_list[j].sub

\* the order is kept if no entry is removed, or no entry is replaced, or
\* every entry that is not removed is replaced
ManifestListOrderKeptUnlessRemovedAndReplaced ==
    /\ oci_pc = "returned"
    /\ src_kind = "index"
    /\ \/ platform_filter = "None"
       \/ annotations # "new"
       \/ holds_annotations = {}
    => \A i, j \in DOMAIN manifest_list :
           i < j => manifest_list[i].sub < manifest_list[j].sub

\* the first entry of the source is removed, and of two later entries the
\* first is replaced and the second is not: they are PUT in the reverse of
\* their order in the source
ManifestListReordered ==
    /\ oci_pc = "returned"
    /\ src_kind = "index"
    /\ ~PassesFilter(1)
    /\ \E i, j \in DOMAIN manifest_list :
          i < j /\ manifest_list[i].sub > manifest_list[j].sub



\* C33 (as stated): iterating the component references ends on every finite
\* reference graph, cyclic ones included, and with prune_unique no component
\* version is looked up and expanded more than once.
C33_TraversalPruned ==
    /\ it_pc # "raised"
    /\ prune_unique => \A c \in DOMAIN lookup_count : lookup_count[c] <= 1

\* cnudie.retrieve.components does prune: no component is looked up twice
\* and the recursion limit is never reached
ComponentsTraversalPruned ==
    it_fn = "components" => C33_TraversalPruned

\* cnudie.retrieve.components comes to its end
ComponentsTerminates == it_fn = "components" ~> it_pc = "done"

\* iter with prune_unique on a graph in which the root references itself
\* ends with a RecursionError
IterCycleRecursionError ==
    /\ it_fn = "iter"
    /\ prune_unique
    /\ RootComp \in references[RootComp]
    /\ it_pc = "raised"

\* iter with prune_unique has come to its end on a graph without cycle,
\* having looked up a component twice
IterLooksUpTwice ==
    /\ it_fn = "iter"
    /\ prune_unique
    /\ it_pc = "done"
    /\ \E c \in Comps : lookup_count[c] = 2



\* the resources the round that ran last had to keep: those failing to check
\* and those that are not up-to-date, a resource being up-to-date if its
\* versions list the PR or if it requires a label the PR does not carry
KeptOfRound ==
    {r \in round_resources :
        \/ r \in failing_to_check
        \/ ~ \/ r \in pr_listed
             \/ RequiredLabel(r) # "None" /\ RequiredLabel(r) \notin label_names}

\* C34: in every round of ensure_pr_resource_updates a resource is kept iff
\* it is failing to check or not up-to-date; the retry set is a subset of the
\* one of the round before; the resource check is triggered for the retry
\* set only, and the loop ends without a trigger as soon as the set is empty.
C34_RetrySet ==
    checks > 0 =>
        /\ trigger_resources = KeptOfRound
        /\ trigger_resources \subseteq round_resources
        /\ IF KeptOfRound = {}
           THEN pr_pc = "returned" /\ outdated = round_resources
           ELSE pr_pc = "call" /\ outdated = KeptOfRound

\* a trigger is counted in the rounds with a retry set that is not empty
RetryTriggerCounted ==
    [][triggers' = triggers + (IF trigger_resources' # {} THEN 1 ELSE 0)]_vars

\* a resource that lists the PR is kept because it fails to check, another
\* one was dropped, in a round after the first
C34_Witness ==
    /\ checks >= 2
    /\ failing_to_check \cap pr_listed \cap outdated # {}
    /\ outdated # round_resources
    /\ pr_pc = "call"

\* the loop has ended in a later round without trigger
RetryLoopEnded ==
    checks >= 2 /\ pr_pc = "returned" /\ triggers = checks - 1



\* the calls of _do_update of the run, in order
Attempts == SelectSeq(update_run, LAMBDA step : step \in DoUpdateOutcomes)

\* C35: _update_pipeline_definition attempts the re-replication at most
\* twice per event; the second attempt follows a JobMappingNotFoundError or
\* ConfigElementNotFoundError of the first and the reload of the
\* configuration; every other error of the first attempt and every error of
\* the second leaves the function, no further attempt being made.
C35_OneRetryAfterNotFound ==
    update_run # <<>> =>
        /\ Len(Attempts) \in {1, 2}
        /\ Len(Attempts) = 2 =>
             /\ Attempts[1] \in NotFoundErrors
             /\ update_run = <<Attempts[1], "reloaded", Attempts[2]>>
        /\ Attempts[1] \notin NotFoundErrors => update_run = <<Attempts[1]>>
        /\ thread_target = "_update_pipeline_definition" =>
             (th_pc = "raised") = (UpdateResult(update_run) # "ok")

\* the second attempt was made after the reload, and its error left the
\* function and ended the thread
C35_Witness ==
    /\ thread_target = "_update_pipeline_definition"
    /\ Len(Attempts) = 2
    /\ Attempts[2] \in NotFoundErrors
    /\ th_pc = "raised"

\* the reload raised: no second attempt
ReloadFailed ==
    /\ Len(update_run) = 2
    /\ UpdateResult(update_run) = "ReloadError"
    /\ Len(Attempts) = 1



\* process_pr_event has validated the pipeline definitions of the pull
\* request, and the validation failed
ValidationFailed ==
    /\ ev_pc \in {"batches", "returned", "raised"}
    /\ has_github_helper
    /\ modified
    /\ action \in {"OPENED", "SYNCHRONIZE"}
    /\ ~validation_ok

\* C36 (as stated): when the validation of the pipeline definitions fails, the
\* 'would break the pipeline definition' comment is added iff the pull
\* request does not carry the label ci/broken-pipeline-definition yet.
C36_CommentOnlyOnce ==
    ValidationFailed =>
        (ValidationComment("broken") \in comments)
            = (TaggingLabel \notin label_names)

\* what holds: the comment is added at every failing validation, the label
\* only if the pull request does not carry it
CommentAlwaysLabelOnce ==
    ValidationFailed =>
        /\ ValidationComment("broken") \in comments
        /\ (<<0, TaggingLabel>> \in labels_added)
             = (TaggingLabel \notin label_names)

\* a pull request that carries the label is commented again
CommentedAgain ==
    /\ ValidationFailed
    /\ TaggingLabel \in label_names
    /\ ValidationComment("broken") \in comments



\* the batches the loop of process_pr_event is through, for a LABELED event
\* whose label is required by a resource of the batch
LabeledRequiredBatches ==
    {i \in 1..(batch - 1) :
        /\ ev_pc \in {"batches", "returned"}
        /\ action = "LABELED"
        /\ event_label \in required_labels(concourse_clients[i])}

\* C37 (as stated): for a LABELED event whose label is required by a resource
\* of the batch, the resource check is triggered on the batch and the update
\* loop is entered, lgtm and reviewed/lgtm included.
C37_RequiredLabelTriggersCheck ==
    \A i \in LabeledRequiredBatches :
        i \in checks_triggered /\ i \in updates_entered

\* the same for the labels other than lgtm and reviewed/lgtm
RequiredLabelTriggersCheckUnlessLgtm ==
    event_label \notin LgtmLabels =>
        \A i \in LabeledRequiredBatches :
            i \in checks_triggered /\ i \in updates_entered

\* the required label reviewed/ok-to-test was set and the check triggered
RequiredLabelTriggered ==
    /\ event_label = "reviewed/ok-to-test"
    /\ \E i \in LabeledRequiredBatches : i \in checks_triggered

\* the required label lgtm was set and the batch skipped
RequiredLgtmSkipped ==
    /\ event_label = "lgtm"
    /\ \E i \in LabeledRequiredBatches : i \notin checks_triggered



\* the cleanup policy allows the processor to remove pipelines
CleanupAllowed ==
    processor.remove_arg /\ processor.cleanup_policy # "NO_CLEANUP"

\* C38 (as stated): the cleanup decision of a pass depends on the results of
\* that pass only: a pass with no failed result cleans up, if the policy
\* allows it, whether or not an earlier pass of the processor had failures.
C38_CleanupPerPass ==
    \A i \in DOMAIN pass_log :
        pass_log[i].cleaned = (pass_log[i].failed_count = 0 /\ CleanupAllowed)

\* what holds: a pass cleans up iff the policy allows it and neither the pass
\* nor any pass before it had a failed result
CleanupUntilFirstFailure ==
    \A i \in DOMAIN pass_log :
        pass_log[i].cleaned =
            /\ CleanupAllowed
            /\ \A j \in 1..i : pass_log[j].failed_count = 0

\* a pass without failed result, after a pass with failures, does not clean
\* up although the policy allows it
CleanupLostAfterFailure ==
    /\ CleanupAllowed
    /\ Len(pass_log) >= 2
    /\ pass_log[1].failed_count > 0
    /\ pass_log[2].failed_count = 0
    /\ ~pass_log[2].cleaned



\* the lookup j repeats a lookup i that a lower layer answered with a
\* descriptor, and the cache has evicted nothing
RepeatedLookups ==
    {<<i, j>> \in (DOMAIN lookup_log) \X (DOMAIN lookup_log) :
        /\ i < j
        /\ evicted = {}
        /\ lookup_log[i].by = "lower"
        /\ lookup_log[j].component_id = lookup_log[i].component_id}

\* C40 (as stated): after the composite lookup returned a descriptor of a
\* layer below the in-memory cache, the repeated lookup with the same
\* component identity and repository context is answered by the in-memory
\* layer, whatever repository context the descriptor records as current.
C40_RepeatedLookupFromCache ==
    \A p \in RepeatedLookups : lookup_log[p[2]].by = "in_memory"

\* the same for descriptors that record the repository context of the lookup
RepeatedLookupFromCacheIfSameCtx ==
    descriptor_ctx_repo = lookup_ctx_repo =>
        \A p \in RepeatedLookups : lookup_log[p[2]].by = "in_memory"

\* a repeated lookup answered by the cache
RepeatedLookupCached ==
    \E p \in RepeatedLookups : lookup_log[p[2]].by = "in_memory"

\* the descriptor records another repository context: the repeated lookup
\* went to the lower layer again
RepeatedLookupMissesCache ==
    /\ descriptor_ctx_repo \notin {0, lookup_ctx_repo}
    /\ \E p \in RepeatedLookups : lookup_log[p[2]].by = "lower"

====
